---- MODULE Spec2Model ----
(***************************************************************************)
(* Model of the agricultural chatbot (src/chatbot_agricole).               *)
(*                                                                         *)
(* Text is a sequence of one-character strings, so that Python's           *)
(* str.lower(), str.strip() and the substring test `kw in text` are        *)
(* computed character by character.  Confidences are hundredths            *)
(* (0.95 is 95).  In the reply texts a character outside Latin-1 is        *)
(* written {U+<code point>}.                                               *)
(***************************************************************************)
EXTENDS Integers, Sequences, FiniteSets, TLC

VARIABLES
  session,      \* Flask session: a function whose domain is the set of keys
  request,      \* the request handled last and what its handler did
  user_input,   \* argument of the current process_user_message call
  result,       \* its return value, NoResult while the call has not returned
  inflight,     \* the chat() requests being handled at the same time
  display,      \* a reply text, its markup and the markup formatted again
  store,        \* db.py: the tables of agri_data.db
  base,         \* database.py: the DatabaseManager and its tables
  call          \* what was done last to a library or to its file, and its outcome

vars == <<session, request, user_input, result, inflight, display, store, base, call>>

-----------------------------------------------------------------------------
(* Bounds *)

\* longest input of the composer, in vocabulary fragments
MaxFrags == 2
\* longest text given to the formatting, in characters
MaxMarkup == 6
\* longest text given to the crop extraction, in fragments
MaxWords == 2
\* longest history given to analyser_contexte
MaxHistory == 2
\* longest conversation log the model lets a session grow
MaxLog == 2
\* number of chat() requests of one session that may overlap
MaxRequests == 2

-----------------------------------------------------------------------------
(* Strings *)

UpperChars == <<"A","B","C","D","E","F","G","H","I","J","K","L","M",
                "N","O","P","Q","R","S","T","U","V","W","X","Y","Z",
                "É","È","Ê","Ô","Ï","Ç">>
LowerChars == <<"a","b","c","d","e","f","g","h","i","j","k","l","m",
                "n","o","p","q","r","s","t","u","v","w","x","y","z",
                "é","è","ê","ô","ï","ç">>

\* str.lower() on one character
LowerChar(c) ==
  IF \E i \in DOMAIN UpperChars : UpperChars[i] = c
    THEN LowerChars[CHOOSE i \in DOMAIN UpperChars : UpperChars[i] = c]
    ELSE c

\* str.lower()
lower(s) == [i \in 1..Len(s) |-> LowerChar(s[i])]

\* str.__contains__: `sub in s`
Contains(sub, s) ==
  \E i \in 1..(Len(s) - Len(sub) + 1) : SubSeq(s, i, i + Len(sub) - 1) = sub

\* the ASCII characters str.strip() removes that a form field can hold
Whitespace == {" ", "\t", "\n", "\r", "\f"}

\* str.strip()
strip(s) ==
  LET keep == {i \in 1..Len(s) : s[i] \notin Whitespace}
  IN  IF keep = {} THEN <<>>
      ELSE SubSeq(s, CHOOSE i \in keep : \A j \in keep : i <= j,
                     CHOOSE i \in keep : \A j \in keep : j <= i)

-----------------------------------------------------------------------------
(* process_user_message: the tables *)

salutations ==
  << <<"b", "o", "n", "j", "o", "u", "r">>,
     <<"s", "a", "l", "u", "t">>,
     <<"c", "o", "u", "c", "o", "u">>,
     <<"h", "e", "l", "l", "o">>,
     <<"h", "e", "y">>,
     <<"b", "o", "n", "s", "o", "i", "r">> >>

greeting_response ==
  "Bonjour ! Comment puis-je vous aider avec votre exploitation agricole aujourd'hui ? {U+1F69C}"

knowledge_base ==
  << [ category |-> "maladies",
       keywords |-> << <<"m", "a", "l", "a", "d", "i", "e">>,
                     <<"s", "i", "g", "n", "e", "s">>,
                     <<"s", "y", "m", "p", "t", "ô", "m", "e">>,
                     <<"f", "e", "u", "i", "l", "l", "e">>,
                     <<"j", "a", "u", "n", "e">>,
                     <<"t", "a", "c", "h", "e">>,
                     <<"m", "a", "l", "a", "d", "e">> >>,
       response |-> "{U+1F33F} **Signes courants de maladies des plantes:**\n\n{U+2022} **Feuilles jaunies**: Manque d'azote ou problème d'arrosage\n{U+2022} **Taches brunes/noires**: Infections fongiques\n{U+2022} **Flétrissement**: Maladies vasculaires ou déshydratation\n{U+2022} **Moisissure blanche**: Oïdium (champignon)\n{U+2022} **Déformation des feuilles**: Virus ou carences\n\n{U+1F4A1} **Conseil**: Inspectez régulièrement vos plants et isolez immédiatement les plants malades.",
       confidence |-> 92,
       source |-> "Base de données agricole" ],
     [ category |-> "plantation",
       keywords |-> << <<"p", "l", "a", "n", "t", "e", "r">>,
                     <<"p", "l", "a", "n", "t", "a", "t", "i", "o", "n">>,
                     <<"s", "e", "m", "e", "r">>,
                     <<"s", "e", "m", "i", "s">>,
                     <<"q", "u", "a", "n", "d">>,
                     <<"p", "é", "r", "i", "o", "d", "e">>,
                     <<"m", "a", "ï", "s">>,
                     <<"t", "o", "m", "a", "t", "e">>,
                     <<"s", "o", "r", "g", "h", "o">> >>,
       response |-> "{U+1F4C5} **Calendrier de plantation (Burkina Faso):**\n\n**Cultures principales:**\n{U+2022} **Maïs**: Mars-Mai (après dernières gelées)\n{U+2022} **Sorgho**: Mai-Juin (début saison des pluies)\n{U+2022} **Mil**: Juin-Juillet\n{U+2022} **Riz**: Mai-Juin (zones humides)\n{U+2022} **Niébé**: Juillet-Août\n{U+2022} **Arachide**: Mai-Juin\n\n{U+1F321}{U+FE0F} **Important**: Sol à minimum 15°C et humidité suffisante.",
       confidence |-> 95,
       source |-> "Calendrier agricole local" ],
     [ category |-> "meteo",
       keywords |-> << <<"m", "é", "t", "é", "o">>,
                     <<"t", "e", "m", "p", "s">>,
                     <<"p", "l", "u", "i", "e">>,
                     <<"s", "é", "c", "h", "e", "r", "e", "s", "s", "e">>,
                     <<"p", "r", "é", "v", "i", "s", "i", "o", "n">>,
                     <<"c", "l", "i", "m", "a", "t">>,
                     <<"t", "e", "m", "p", "é", "r", "a", "t", "u", "r", "e">> >>,
       response |-> "{U+1F324}{U+FE0F} **Prévisions météorologiques:**\n\n{U+1F4CD} **Ouagadougou, Centre:**\n{U+2022} **Aujourd'hui**: Ensoleillé, 32-35°C\n{U+2022} **Cette semaine**: Temps sec, pas de pluie\n{U+2022} **Tendance**: Période sèche continue\n\n{U+26A0}{U+FE0F} **Alerte sécheresse**: \n{U+2022} Irrigation recommandée 2-3x/semaine\n{U+2022} Paillage pour conserver l'humidité\n{U+2022} Surveillance accrue des cultures",
       confidence |-> 88,
       source |-> "Service météo" ],
     [ category |-> "parasites",
       keywords |-> << <<"p", "a", "r", "a", "s", "i", "t", "e">>,
                     <<"i", "n", "s", "e", "c", "t", "e">>,
                     <<"l", "u", "t", "t", "e">>,
                     <<"p", "r", "o", "t", "e", "c", "t", "i", "o", "n">>,
                     <<"r", "a", "v", "a", "g", "e", "u", "r">>,
                     <<"c", "h", "e", "n", "i", "l", "l", "e">>,
                     <<"p", "u", "c", "e", "r", "o", "n">>,
                     <<"c", "r", "i", "q", "u", "e", "t">> >>,
       response |-> "{U+1F41B} **Lutte contre les parasites:**\n\n**Méthodes naturelles:**\n{U+2022} Rotation des cultures (espacer 3-4 ans)\n{U+2022} Plantes répulsives: basilic, {U+0153}illets d'Inde\n{U+2022} Savon noir dilué (15ml/L)\n{U+2022} Coccinelles contre les pucerons\n\n**Méthodes biologiques:**\n{U+2022} Neem (margousier) - insecticide naturel\n{U+2022} Bacillus thuringiensis (chenilles)\n\n**Prévention:**\n{U+2022} Inspection 2x/semaine\n{U+2022} Élimination plants infectés\n{U+2022} Espacement correct (aération)",
       confidence |-> 91,
       source |-> "Guide phytosanitaire" ],
     [ category |-> "irrigation",
       keywords |-> << <<"e", "a", "u">>,
                     <<"a", "r", "r", "o", "s", "a", "g", "e">>,
                     <<"i", "r", "r", "i", "g", "a", "t", "i", "o", "n">>,
                     <<"a", "r", "r", "o", "s", "e", "r">>,
                     <<"g", "o", "u", "t", "t", "e">>,
                     <<"p", "o", "m", "p", "e">> >>,
       response |-> "{U+1F4A7} **Gestion de l'irrigation:**\n\n**Besoins en eau (Burkina Faso):**\n{U+2022} Saison sèche: 20-30L/m²/semaine\n{U+2022} Saison des pluies: Selon précipitations\n\n**Techniques recommandées:**\n{U+2022} Goutte-à-goutte: économie 40-60%\n{U+2022} Irrigation matinale (5h-8h)\n{U+2022} Paillage: réduit évaporation de 70%\n{U+2022} Bassins de rétention d'eau\n\n**Fréquence:**\n{U+2022} Légumes: 2-3x/semaine\n{U+2022} Céréales: 1-2x/semaine\n{U+2022} Arbres fruitiers: 1x/semaine",
       confidence |-> 93,
       source |-> "Manuel irrigation" ],
     [ category |-> "sol",
       keywords |-> << <<"s", "o", "l">>,
                     <<"t", "e", "r", "r", "e">>,
                     <<"c", "o", "m", "p", "o", "s", "t">>,
                     <<"e", "n", "g", "r", "a", "i", "s">>,
                     <<"f", "e", "r", "t", "i", "l", "i", "s", "a", "n", "t">>,
                     <<"p", "h">>,
                     <<"a", "m", "e", "n", "d", "e", "m", "e", "n", "t">> >>,
       response |-> "{U+1F331} **Gestion et amélioration du sol:**\n\n**Sols du Burkina Faso:**\n{U+2022} Ferrugineux tropicaux (80%)\n{U+2022} Argilo-limoneux (bas-fonds)\n{U+2022} pH: 5.5-7.0\n\n**Amélioration:**\n{U+2022} Compost: 3-5 kg/m² annuellement\n{U+2022} Fumier bien décomposé: 2-4 kg/m²\n{U+2022} Paillage permanent\n{U+2022} Légumineuses (fixation azote)\n\n**Test sol simple:**\n{U+2022} Vinaigre = pétille {U+2192} sol calcaire\n{U+2022} Ne pétille pas {U+2192} sol acide",
       confidence |-> 90,
       source |-> "Pédologie agricole" ],
     [ category |-> "recolte",
       keywords |-> << <<"r", "é", "c", "o", "l", "t", "e">>,
                     <<"r", "é", "c", "o", "l", "t", "e", "r">>,
                     <<"c", "u", "e", "i", "l", "l", "i", "r">>,
                     <<"m", "a", "t", "u", "r", "i", "t", "é">>,
                     <<"r", "e", "n", "d", "e", "m", "e", "n", "t">>,
                     <<"c", "o", "n", "s", "e", "r", "v", "a", "t", "i", "o", "n">> >>,
       response |-> "{U+1F33E} **Guide de récolte:**\n\n**Signes de maturité:**\n{U+2022} **Maïs**: Soies brunies, grains fermes\n{U+2022} **Sorgho**: Grains durs, panicules courbées\n{U+2022} **Tomates**: Couleur uniforme, légèrement souples\n{U+2022} **Oignons**: Feuillage sec, couché\n\n**Bonnes pratiques:**\n{U+2022} Récolter par temps sec\n{U+2022} Matin ou soir (éviter chaleur)\n{U+2022} Outils propres et désinfectés\n{U+2022} Stockage ventilé et sec\n\n**Conservation:**\n{U+2022} Greniers surélevés (rongeurs)\n{U+2022} Température fraîche\n{U+2022} Inspection régulière",
       confidence |-> 89,
       source |-> "Guide post-récolte" ] >>

default_response ==
  "{U+1F914} Je ne suis pas sûr de bien comprendre votre question.\n\n**Voici ce que je peux vous aider:**\n{U+2022} {U+1F4C5} Calendrier de plantation\n{U+2022} {U+1F33F} Identification des maladies\n{U+2022} {U+1F324}{U+FE0F} Prévisions météorologiques\n{U+2022} {U+1F41B} Lutte contre les parasites\n{U+2022} {U+1F4A7} Gestion de l'irrigation\n{U+2022} {U+1F331} Amélioration du sol\n{U+2022} {U+1F33E} Conseils de récolte\n\nPosez-moi une question précise sur l'un de ces sujets!"

-----------------------------------------------------------------------------
(* process_user_message: the decision ladder *)

\* mutant: the whole message compared with each greeting, `text in salutations`
is_salutation_exact(user_input_lower) ==
  \E s \in DOMAIN salutations : salutations[s] = user_input_lower

\* any(salut in user_input_lower for salut in salutations)
is_salutation(user_input_lower) ==
  \E s \in DOMAIN salutations : Contains(salutations[s], user_input_lower)

\* the greeting tier's return value
greeting_reply ==
  [ response |-> greeting_response, confidence |-> 95,
    source |-> "base de connaissances" ]

\* sum(1 for keyword in data['keywords'] if keyword in user_input_lower)
matches(data, user_input_lower) ==
  Cardinality({k \in DOMAIN data.keywords :
                 Contains(data.keywords[k], user_input_lower)})

\* mutant: the first category with a hit is kept
is_better_first(m, max_matches) == max_matches = 0 /\ m > 0

\* mutant: `matches >= max_matches`, the last of several tied categories wins
is_better_ge(m, max_matches) == m >= max_matches

\* the loop's test `matches > max_matches`
is_better(m, max_matches) == m > max_matches

\* the loop over knowledge_base.items(), in the dict's insertion order;
\* best_match is <<>> for None and <<data>> otherwise
RECURSIVE best_match_loop(_, _, _, _)
best_match_loop(i, best_match, max_matches, user_input_lower) ==
  IF i > Len(knowledge_base)
    THEN [ best_match |-> best_match, max_matches |-> max_matches ]
    ELSE LET data == knowledge_base[i]
             m == matches(data, user_input_lower)
         IN  IF is_better(m, max_matches)
               THEN best_match_loop(i + 1, <<data>>, m, user_input_lower)
               ELSE best_match_loop(i + 1, best_match, max_matches,
                                    user_input_lower)

\* mutant: the fallback confidence mistyped as 0.05
default_reply_low ==
  [ response |-> default_response, confidence |-> 5, source |-> "Système" ]

\* the fallback tier's return value
default_reply ==
  [ response |-> default_response, confidence |-> 50, source |-> "Système" ]

\* what a call that raises leaves instead of a return value
Raised == [ response |-> "", confidence |-> 0, source |-> "exception" ]

\* mutant: best_match['response'] read without the None test (a TypeError)
select_reply_unguarded(found) ==
  IF found.best_match = <<>>
    THEN Raised
    ELSE LET best == found.best_match[1]
         IN  [ response |-> best.response, confidence |-> best.confidence,
               source |-> best.source ]

\* mutant: every block answered with the confidence of the greeting
select_reply_flat(found) ==
  IF found.best_match # <<>> /\ found.max_matches > 0
    THEN LET best == found.best_match[1]
         IN  [ response |-> best.response, confidence |-> 95,
               source |-> best.source ]
    ELSE default_reply

\* `if best_match and max_matches > 0: return ... else: return default`
select_reply(found) ==
  IF found.best_match # <<>> /\ found.max_matches > 0
    THEN LET best == found.best_match[1]
         IN  [ response |-> best.response, confidence |-> best.confidence,
               source |-> best.source ]
    ELSE default_reply

\* mutant: the knowledge base scored before the greeting test
process_user_message_kb_first(text) ==
  LET user_input_lower == lower(text)
      found == best_match_loop(1, <<>>, 0, user_input_lower)
  IN  IF found.best_match # <<>> /\ found.max_matches > 0
        THEN select_reply(found)
        ELSE IF is_salutation(user_input_lower)
               THEN greeting_reply
               ELSE default_reply

\* mutant: the text tested as typed, without lower()
process_user_message_as_typed(text) ==
  IF is_salutation(text)
    THEN greeting_reply
    ELSE select_reply(best_match_loop(1, <<>>, 0, text))

\* process_user_message(user_input) -> (response, confidence, source)
process_user_message(text) ==
  LET user_input_lower == lower(text)
  IN  IF is_salutation(user_input_lower)
        THEN greeting_reply
        ELSE select_reply(best_match_loop(1, <<>>, 0, user_input_lower))

-----------------------------------------------------------------------------
(* db.py: the knowledge store and its lookups *)

\* the rows seed_basic_data inserts into an empty base; id is the
\* AUTOINCREMENT key, given in insertion order
cultures ==
  << [ id |-> 1, nom |-> <<"M","a","ï","s">>,
       type_culture |-> "céréale", duree_cycle_jours |-> 90,
       description |-> "Céréale de base très cultivée, sensible au manque d'eau au démarrage." ],
     [ id |-> 2, nom |-> <<"S","o","r","g","h","o">>,
       type_culture |-> "céréale", duree_cycle_jours |-> 110,
       description |-> "Céréale résistante à la sécheresse, adaptée aux zones sèches." ],
     [ id |-> 3, nom |-> <<"M","i","l">>,
       type_culture |-> "céréale", duree_cycle_jours |-> 100,
       description |-> "Céréale traditionnelle très résistante, pour sols pauvres." ],
     [ id |-> 4, nom |-> <<"R","i","z">>,
       type_culture |-> "céréale", duree_cycle_jours |-> 120,
       description |-> "Culture de bas-fond demandant beaucoup d'eau." ],
     [ id |-> 5, nom |-> <<"N","i","é","b","é">>,
       type_culture |-> "légumineuse", duree_cycle_jours |-> 70,
       description |-> "Légumineuse qui fixe l'azote et enrichit le sol." ],
     [ id |-> 6, nom |-> <<"A","r","a","c","h","i","d","e">>,
       type_culture |-> "légumineuse", duree_cycle_jours |-> 110,
       description |-> "Culture de rente, apprécie les sols sablo-limoneux." ],
     [ id |-> 7, nom |-> <<"T","o","m","a","t","e">>,
       type_culture |-> "maraîchère", duree_cycle_jours |-> 80,
       description |-> "Culture maraîchère exigeante en eau et en suivi sanitaire." ],
     [ id |-> 8, nom |-> <<"O","i","g","n","o","n">>,
       type_culture |-> "maraîchère", duree_cycle_jours |-> 120,
       description |-> "Culture de saison sèche, sensible à l'excès d'eau." ] >>

periodes_plantation ==
  << [ culture_id |-> 1, region |-> "Centre", mois_debut |-> 5, mois_fin |-> 7,
       conseils |-> "Semer dès l'installation des pluies, sur sol bien préparé." ],
     [ culture_id |-> 2, region |-> "Centre", mois_debut |-> 6, mois_fin |-> 7,
       conseils |-> "Semer après le maïs, tolère mieux les pauses pluviométriques." ],
     [ culture_id |-> 3, region |-> "Nord", mois_debut |-> 6, mois_fin |-> 7,
       conseils |-> "Privilégier le mil dans les zones très sèches." ],
     [ culture_id |-> 4, region |-> "Bas-fonds", mois_debut |-> 6, mois_fin |-> 7,
       conseils |-> "Planter dans les bas-fonds ou zones irriguées." ],
     [ culture_id |-> 5, region |-> "Centre", mois_debut |-> 7, mois_fin |-> 8,
       conseils |-> "Peut être associé avec le maïs pour enrichir le sol." ],
     [ culture_id |-> 6, region |-> "Centre", mois_debut |-> 5, mois_fin |-> 6,
       conseils |-> "Semer en début de saison des pluies sur sols légers." ],
     [ culture_id |-> 7, region |-> "Périmètre irrigué", mois_debut |-> 11, mois_fin |-> 2,
       conseils |-> "Culture de saison sèche avec irrigation régulière." ],
     [ culture_id |-> 8, region |-> "Périmètre irrigué", mois_debut |-> 11, mois_fin |-> 1,
       conseils |-> "Préférer des sols légers, bien drainés." ] >>

sols ==
  << [ id |-> 1, nom |-> <<"s","a","b","l","o","n","n","e","u","x">>,
       description |-> "Sols légers, pauvres en matière organique, se réchauffent vite mais retiennent peu l'eau." ],
     [ id |-> 2, nom |-> <<"a","r","g","i","l","o","-","l","i","m","o","n","e","u","x">>,
       description |-> "Sols fertiles, bons pour de nombreuses cultures mais sensibles au tassement." ],
     [ id |-> 3, nom |-> <<"f","e","r","r","u","g","i","n","e","u","x"," ","t","r","o","p","i","c","a","u","x">>,
       description |-> "Sols dominants au Burkina, souvent pauvres en matière organique." ] >>

\* pairs <<culture_id, sol_id>>
culture_sols ==
  { <<1, 3>>, <<1, 2>>, <<2, 3>>, <<3, 1>>, <<4, 2>>, <<7, 2>>, <<8, 1>> }

\* a text as a Python string
RECURSIVE str(_)
str(text) == IF text = <<>> THEN "" ELSE text[1] \o str(Tail(text))

\* SQL LOWER(): SQLite folds the ASCII letters only
sql_lower(text) ==
  [i \in DOMAIN text |->
     IF \E k \in 1..26 : UpperChars[k] = text[i]
       THEN LowerChars[CHOOSE k \in 1..26 : UpperChars[k] = text[i]]
       ELSE text[i]]

\* the characters of the crop names in the order of their UTF-8 bytes, which
\* is the order of SQLite's default (BINARY) collation
Collation ==
  <<"A","B","C","D","E","F","G","H","I","J","K","L","M",
    "N","O","P","Q","R","S","T","U","V","W","X","Y","Z",
    "a","b","c","d","e","f","g","h","i","j","k","l","m",
    "n","o","p","q","r","s","t","u","v","w","x","y","z",
    "Ç","È","É","Ê","Ï","Ô","ç","è","é","ê","ï","ô">>

Rank(c) == CHOOSE k \in DOMAIN Collation : Collation[k] = c

\* a sorts before b under ORDER BY
RECURSIVE sorts_before(_, _)
sorts_before(a, b) ==
  IF a = <<>> THEN b # <<>>
  ELSE IF b = <<>> THEN FALSE
  ELSE IF a[1] = b[1] THEN sorts_before(Tail(a), Tail(b))
  ELSE Rank(a[1]) < Rank(b[1])

\* ORDER BY c.nom over a set of distinct names
RECURSIVE order_by_nom(_)
order_by_nom(noms) ==
  IF noms = {} THEN <<>>
  ELSE LET first == CHOOSE a \in noms : \A b \in noms \ {a} : sorts_before(a, b)
       IN  <<first>> \o order_by_nom(noms \ {first})

\* ", ".join(cultures)
RECURSIVE join(_)
join(noms) ==
  IF noms = <<>> THEN ""
  ELSE IF Len(noms) = 1 THEN str(noms[1])
  ELSE str(noms[1]) \o ", " \o join(Tail(noms))

\* agri_data.db after init_db() and seed_basic_data() on a new file
SeededStore ==
  [ tables |-> TRUE, cultures |-> cultures,
    periodes_plantation |-> periodes_plantation,
    sols |-> sols, culture_sols |-> culture_sols ]

\* no DatabaseManager yet and no file agriculture_burkina.db: the tables the
\* file has, their rows, and the connection that holds the write lock
NoBase ==
  [ manager |-> "none", tables |-> {}, cultures |-> <<>>,
    periodes_plantation |-> <<>>, writer |-> "none" ]

\* no library call yet
NoCall == [ op |-> "none", arg |-> <<>>, outcome |-> [kind |-> "none"] ]

\* the row of a table that has the id
row_of(table, id) == table[CHOOSE i \in DOMAIN table : table[i].id = id]

\* find_culture_in_text: the first row of SELECT nom FROM cultures whose
\* lowercased name is in the lowercased text.  The query has no ORDER BY, so
\* the order of the rows is not specified (SQLite scans the index of the
\* UNIQUE nom here, not the table) and any matching row may come first: the
\* value is the set of the names the call may return, empty when it returns
\* None.
find_culture_in_text(text) ==
  LET text_lower == lower(text)
  IN  { store.cultures[i].nom :
          i \in { k \in DOMAIN store.cultures :
                    Contains(lower(store.cultures[k].nom), text_lower) } }

\* get_planting_info: the periods joined to their culture, <<>> for None.
\* The seed holds one period per culture, so ORDER BY p.region has no two
\* rows to order.
get_planting_info(culture_name) ==
  LET wanted == { store.cultures[c].id :
                    c \in { k \in DOMAIN store.cultures :
                              sql_lower(store.cultures[k].nom) = sql_lower(culture_name) } }
      rows == SelectSeq(store.periodes_plantation, LAMBDA r : r.culture_id \in wanted)
  IN  [r \in DOMAIN rows |->
         [ region |-> rows[r].region,
           mois_debut |-> rows[r].mois_debut,
           mois_fin |-> rows[r].mois_fin,
           conseils |-> rows[r].conseils,
           duree_cycle_jours |->
             row_of(store.cultures, rows[r].culture_id).duree_cycle_jours ]]

\* the advice text of one soil
soil_text(sol) ==
  LET noms == { store.cultures[c].nom :
                  c \in { k \in DOMAIN store.cultures :
                            <<store.cultures[k].id, sol.id>> \in store.culture_sols } }
      cultures_txt == IF noms # {} THEN join(order_by_nom(noms))
                      ELSE "plusieurs cultures adaptées"
  IN  "{U+1F331} **Sol " \o str(sol.nom) \o "**\n\n"
        \o sol.description \o "\n\n"
        \o "{U+2705} Cultures adaptées : " \o cultures_txt \o "."

\* get_soil_recommendations: the advice of the first row of SELECT ... FROM
\* sols whose name, as stored, is in the lowercased text.  As above the rows
\* come in an unspecified order: the value is the set of the texts the call
\* may return, empty when it returns None.
get_soil_recommendations(text) ==
  LET text_lower == lower(text)
  IN  { soil_text(store.sols[i]) :
          i \in { k \in DOMAIN store.sols :
                    Contains(store.sols[k].nom, text_lower) } }

-----------------------------------------------------------------------------
(* Inputs of the composer *)

Frags ==
  { <<" ">>,
    <<"B","o","n","j","o","u","r">>,
    <<"h","e","y">>,
    <<"m","a","l","a","d","i","e">>,
    <<"t","a","c","h","e">>,
    <<"Q","U","A","N","D">>,
    <<"p","a","r","a","s","i","t","e">>,
    <<"r","é","c","o","l","t","e","r">>,
    <<"S","o","l">>,
    <<"n","i","v","e","a","u">>,
    <<"m","a","ï","s">>,
    <<"s","a","b","l","o","n","n","e","u","x">>,
    <<"z","z">> }

RECURSIVE Texts(_)
Texts(n) ==
  IF n = 0 THEN {<<>>}
  ELSE Texts(n - 1) \cup {t \o f : t \in Texts(n - 1), f \in Frags}

Inputs == Texts(MaxFrags)

NoResult == [ response |-> "", confidence |-> 0, source |-> "" ]

\* a session without any key
EmptySession == [k \in {} |-> <<>>]

\* nothing shown yet
NoDisplay == [ text |-> <<>>, once |-> <<>>, html |-> <<>>, passes |-> 0 ]

\* before the first request
NoRequest ==
  [ handler |-> "none", input |-> <<>>, before |-> "absent",
    composed |-> FALSE, now |-> "", response |-> [ kind |-> "none" ] ]

-----------------------------------------------------------------------------
(* The composer alone: one call of process_user_message per input *)

InitCompose ==
  /\ session = EmptySession
  /\ request = NoRequest
  /\ user_input \in Inputs
  /\ result = NoResult
  /\ inflight = <<>>
  /\ display = NoDisplay
  /\ store = SeededStore
  /\ base = NoBase
  /\ call = NoCall

\* the call returns
Compose ==
  /\ result = NoResult
  /\ result' = process_user_message(user_input)
  /\ UNCHANGED <<session, request, user_input, inflight, display, store, base, call>>

\* the next call, with another message
NewCall ==
  /\ result # NoResult
  /\ user_input' \in Inputs
  /\ result' = NoResult
  /\ UNCHANGED <<session, request, inflight, display, store, base, call>>

NextCompose == Compose \/ NewCall

SpecCompose == InitCompose /\ [][NextCompose]_vars

-----------------------------------------------------------------------------
(* The session and its handlers *)

\* the minutes datetime.now().strftime('%H:%M') can give during a run
Clock == <<"23:59", "00:00">>

\* a second reading of the clock in the same request
Later(i) == {j \in DOMAIN Clock : j = i \/ j = i + 1}

\* the form field 'input' of the requests
FormInputs ==
  { <<>>,
    <<" ", "\t">>,
    <<"H","e","y">>,
    <<"h","e","y">>,
    <<" ","S","o","l"," ">>,
    <<"t","a","c","h","e"," ","r","é","c","o","l","t","e","r">>,
    <<"z","z">> }

\* get_conversation(): the log, created empty when the session has none
get_conversation(sess) ==
  IF "conversation" \in DOMAIN sess
    THEN [ session |-> sess, conversation |-> sess.conversation ]
    ELSE [ session |-> [conversation |-> <<>>], conversation |-> <<>> ]

\* what a request finds in the session
SessionKind(sess) ==
  IF "conversation" \notin DOMAIN sess THEN "absent"
  ELSE IF sess.conversation = <<>> THEN "empty" ELSE "turns"

\* index(): GET /
index ==
  /\ session' = get_conversation(session).session
  /\ request' = [ handler |-> "index", input |-> <<>>,
                  before |-> SessionKind(session), composed |-> FALSE,
                  now |-> "", response |-> [ kind |-> "page" ] ]
  /\ UNCHANGED <<user_input, result, inflight, display, store, base, call>>

\* mutant: the form field taken as sent, without .strip()
form_input_raw(raw) == raw

\* request.form.get('input', '').strip()
form_input(raw) == strip(raw)

\* mutant: the confidence stored as a percentage
turn_percent(text, reply, now) ==
  [ user |-> text, bot |-> reply.response, score |-> reply.confidence * 100,
    source |-> reply.source, timestamp |-> now ]

\* the dict chat() appends
turn(text, reply, now) ==
  [ user |-> text, bot |-> reply.response, score |-> reply.confidence,
    source |-> reply.source, timestamp |-> now ]

\* mutant: a turn already in the log is not appended again
append_dedup(conversation, t) ==
  IF \E n \in DOMAIN conversation : conversation[n] = t
    THEN conversation
    ELSE Append(conversation, t)

\* mutant: conversation.insert(0, ...)
append_front(conversation, t) == <<t>> \o conversation

\* conversation.append(...)
append(conversation, t) == Append(conversation, t)

\* f"{confidence:.2f}": the integer part and the two decimals
format_2f(confidence) == <<confidence \div 100, confidence % 100>>

\* chat(): POST /
chat ==
  \E raw \in FormInputs, i \in DOMAIN Clock, xhr \in BOOLEAN :
    \E j \in Later(i) :
      LET text == form_input(raw)
      IN  IF text = <<>>
            THEN /\ request' = [ handler |-> "chat", input |-> raw,
                                 before |-> SessionKind(session),
                                 composed |-> FALSE, now |-> "",
                                 response |-> [ kind |-> "redirect" ] ]
                 /\ UNCHANGED <<session, user_input, result, inflight,
                                display, store, base, call>>
            ELSE LET reply == process_user_message(text)
                     got == get_conversation(session)
                     conversation ==
                       append(got.conversation, turn(text, reply, Clock[i]))
                 IN  /\ UNCHANGED <<inflight, display, store, base, call>>
                     /\ Len(got.conversation) < MaxLog
                     /\ session' =
                          [got.session EXCEPT !.conversation = conversation]
                     /\ user_input' = text
                     /\ result' = reply
                     /\ request' =
                          [ handler |-> "chat", input |-> raw,
                            before |-> SessionKind(session),
                            composed |-> TRUE, now |-> Clock[i],
                            response |->
                              IF xhr
                                THEN [ kind |-> "json", status |-> "success",
                                       bot_response |-> reply.response,
                                       confidence |->
                                         format_2f(reply.confidence),
                                       timestamp |-> Clock[j] ]
                                ELSE [ kind |-> "redirect" ] ]

\* mutant: a key the session never holds is popped
pop_other_key(sess) == sess

\* session.pop('conversation', None)
pop_conversation(sess) == [k \in DOMAIN sess \ {"conversation"} |-> sess[k]]

\* reset(): GET /reset
reset ==
  /\ session' = pop_conversation(session)
  /\ request' = [ handler |-> "reset", input |-> <<>>,
                  before |-> SessionKind(session), composed |-> FALSE,
                  now |-> "", response |-> [ kind |-> "redirect" ] ]
  /\ UNCHANGED <<user_input, result, inflight, display, store, base, call>>

\* sum(scores), in hundredths
RECURSIVE sum_scores(_, _)
sum_scores(conversation, n) ==
  IF n = 0 THEN 0
  ELSE sum_scores(conversation, n - 1) + conversation[n].score

\* mutant: `sum(scores) // len(scores)`, which is 0.0 for scores below 1
calculate_avg_confidence_floor(conversation) == [ num |-> 0, den |-> 1 ]

\* calculate_avg_confidence(conversation): the quotient num/den, in
\* hundredths; 0.0 for an empty log
calculate_avg_confidence(conversation) ==
  IF conversation = <<>>
    THEN [ num |-> 0, den |-> 1 ]
    ELSE [ num |-> sum_scores(conversation, Len(conversation)),
           den |-> Len(conversation) ]

\* the empty dict
EmptyDict == [k \in {} |-> 0]

\* mutant: `sources[source] = 1`, the earlier count forgotten
count_source_once(sources, source) ==
  [k \in DOMAIN sources \cup {source} |->
     IF k = source THEN 1 ELSE sources[k]]

\* sources[source] = sources.get(source, 0) + 1
count_source(sources, source) ==
  [k \in DOMAIN sources \cup {source} |->
     IF k = source
       THEN (IF source \in DOMAIN sources THEN sources[source] ELSE 0) + 1
       ELSE sources[k]]

\* get_sources_stats(conversation): the loop over the first n messages
RECURSIVE get_sources_stats_loop(_, _)
get_sources_stats_loop(conversation, n) ==
  IF n = 0 THEN EmptyDict
  ELSE LET msg == conversation[n]
           source == IF "source" \in DOMAIN msg THEN msg.source
                     ELSE "Inconnu"
       IN  count_source(get_sources_stats_loop(conversation, n - 1), source)

get_sources_stats(conversation) ==
  get_sources_stats_loop(conversation, Len(conversation))

\* performance(): GET /performance
performance ==
  LET got == get_conversation(session)
      stats == [ total_messages |-> Len(got.conversation),
                 avg_confidence |->
                   calculate_avg_confidence(got.conversation),
                 sources_used |-> get_sources_stats(got.conversation) ]
  IN  /\ session' = got.session
      /\ request' = [ handler |-> "performance", input |-> <<>>,
                      before |-> SessionKind(session), composed |-> FALSE,
                      now |-> "",
                      response |-> [ kind |-> "page", stats |-> stats ] ]
      /\ UNCHANGED <<user_input, result, inflight, display, store, base, call>>

Init ==
  /\ session = EmptySession
  /\ request = NoRequest
  /\ user_input = <<>>
  /\ result = NoResult
  /\ inflight = <<>>
  /\ display = NoDisplay
  /\ store = SeededStore
  /\ base = NoBase
  /\ call = NoCall

Next == index \/ chat \/ reset \/ performance

Spec == Init /\ [][Next]_vars

-----------------------------------------------------------------------------
(* db.py as a library: the file agri_data.db, its initialisation and the
   calls of the lookups *)

\* agri_data.db is not there: sqlite3.connect creates an empty file, without
\* tables
NoStore ==
  [ tables |-> FALSE, cultures |-> <<>>, periodes_plantation |-> <<>>,
    sols |-> <<>>, culture_sols |-> {} ]

\* init_db: CREATE TABLE IF NOT EXISTS for the four tables
init_db(st) == [st EXCEPT !.tables = TRUE]

\* the id of the row that has the name, 0 when there is none
id_of(table, nom) ==
  IF \E i \in DOMAIN table : table[i].nom = nom
    THEN table[CHOOSE i \in DOMAIN table : table[i].nom = nom].id
    ELSE 0

\* INSERT OR IGNORE of rows with a UNIQUE nom: a row whose name is stored is
\* skipped, the others get the next ids
RECURSIVE insert_or_ignore(_, _)
insert_or_ignore(table, rows) ==
  IF rows = <<>> THEN table
  ELSE IF id_of(table, Head(rows).nom) # 0
         THEN insert_or_ignore(table, Tail(rows))
         ELSE insert_or_ignore(
                Append(table, [Head(rows) EXCEPT !.id = Len(table) + 1]),
                Tail(rows))

\* mutant: the rows inserted without the test of the cultures table
seed_basic_data_again(st) ==
  LET with_cultures == insert_or_ignore(st.cultures, cultures)
      with_sols == insert_or_ignore(st.sols, sols)
      nom_of_culture(id) == row_of(cultures, id).nom
      nom_of_sol(id) == row_of(sols, id).nom
  IN  [ tables |-> st.tables,
        cultures |-> with_cultures,
        periodes_plantation |->
          st.periodes_plantation \o
            [p \in DOMAIN periodes_plantation |->
               [periodes_plantation[p] EXCEPT
                  !.culture_id = id_of(with_cultures,
                                       nom_of_culture(periodes_plantation[p].culture_id))]],
        sols |-> with_sols,
        culture_sols |->
          st.culture_sols \cup
            { <<id_of(with_cultures, nom_of_culture(l[1])),
                id_of(with_sols, nom_of_sol(l[2]))>> : l \in culture_sols } ]

\* seed_basic_data: nothing when the cultures table holds a row, else the
\* cultures, the periods, the soils and the links are inserted
seed_basic_data(st) ==
  IF Len(st.cultures) > 0
    THEN st
    ELSE seed_basic_data_again(st)

\* what a call leaves
ReturnedValue(value) == [ kind |-> "value", value |-> value ]
ReturnedNone == [ kind |-> "None" ]
RaisedError(error) == [ kind |-> "raised", error |-> error ]

\* cur.execute on a file without the tables
NoSuchTable == RaisedError("sqlite3.OperationalError")

\* the texts and the names the lookups are called with
LookupTexts ==
  { <<"m","a","ï","s">>,
    <<"L","e"," ","M","I","L">>,
    <<"m","i","l"," ","e","t"," ","r","i","z">>,
    <<"s","o","l"," ","s","a","b","l","o","n","n","e","u","x">>,
    <<"S","o","l"," ","L","i","m","o","n","e","u","x">>,
    <<"S","A","B","L","O","N","N","E","U","X">>,
    <<"l","i","m","o","n"," ","f","e","r","r","u","g","i","n","e","u","x"," ","t","r","o","p","i","c","a","u","x">>,
    <<"z","z">> }

LookupNames ==
  { <<"M","a","ï","s">>, <<"m","a","ï","s">>, <<"N","I","É","B","É">>,
    <<"c","o","t","o","n">> }

\* the soils somebody else may write into the file
OtherSols ==
  { [ id |-> 0, nom |-> <<"L","i","m","o","n","e","u","x">>,
      description |-> "Sols profonds et meubles." ],
    [ id |-> 0, nom |-> <<"l","i","m","o","n">>,
      description |-> "Sols battants." ] }

\* the initialisation at the import of the module: init_db(), seed_basic_data()
import_db ==
  /\ store' = seed_basic_data(init_db(store))
  /\ call' = [ op |-> "import", arg |-> <<>>, outcome |-> ReturnedNone ]
  /\ UNCHANGED <<session, request, user_input, result, inflight, display, base>>

\* a later call of seed_basic_data()
call_seed_basic_data ==
  /\ store' = IF store.tables THEN seed_basic_data(store) ELSE store
  /\ call' = [ op |-> "seed_basic_data", arg |-> <<>>,
               outcome |-> IF store.tables THEN ReturnedNone ELSE NoSuchTable ]
  /\ UNCHANGED <<session, request, user_input, result, inflight, display, base>>

\* the file is removed, or the process runs in another directory
lose_store ==
  /\ store.tables
  /\ store' = NoStore
  /\ call' = [ op |-> "file removed", arg |-> <<>>, outcome |-> [kind |-> "none"] ]
  /\ UNCHANGED <<session, request, user_input, result, inflight, display, base>>

\* a soil written into the file by another tool
other_adds_sol ==
  /\ store.tables
  /\ \E sol \in OtherSols :
       /\ id_of(store.sols, sol.nom) = 0
       /\ store' = [store EXCEPT !.sols = insert_or_ignore(store.sols, <<sol>>)]
       /\ call' = [ op |-> "file written", arg |-> sol.nom, outcome |-> [kind |-> "none"] ]
  /\ UNCHANGED <<session, request, user_input, result, inflight, display, base>>

call_find_culture_in_text ==
  /\ \E text \in LookupTexts :
       \E outcome \in IF ~ store.tables THEN {NoSuchTable}
                      ELSE IF find_culture_in_text(text) = {} THEN {ReturnedNone}
                      ELSE {ReturnedValue(nom) : nom \in find_culture_in_text(text)} :
         call' = [ op |-> "find_culture_in_text", arg |-> text, outcome |-> outcome ]
  /\ UNCHANGED <<session, request, user_input, result, inflight, display, store, base>>

call_get_planting_info ==
  /\ \E culture_name \in LookupNames :
       call' = [ op |-> "get_planting_info", arg |-> culture_name,
                 outcome |-> IF ~ store.tables THEN NoSuchTable
                             ELSE IF get_planting_info(culture_name) = <<>>
                                    THEN ReturnedNone
                                    ELSE ReturnedValue(get_planting_info(culture_name)) ]
  /\ UNCHANGED <<session, request, user_input, result, inflight, display, store, base>>

call_get_soil_recommendations ==
  /\ \E text \in LookupTexts :
       \E outcome \in IF ~ store.tables THEN {NoSuchTable}
                      ELSE IF get_soil_recommendations(text) = {} THEN {ReturnedNone}
                      ELSE {ReturnedValue(advice) : advice \in get_soil_recommendations(text)} :
         call' = [ op |-> "get_soil_recommendations", arg |-> text, outcome |-> outcome ]
  /\ UNCHANGED <<session, request, user_input, result, inflight, display, store, base>>

NextStore ==
  \/ import_db
  \/ call_seed_basic_data
  \/ lose_store
  \/ other_adds_sol
  \/ call_find_culture_in_text
  \/ call_get_planting_info
  \/ call_get_soil_recommendations

SpecStore == Init /\ [][NextStore]_vars

-----------------------------------------------------------------------------
(* nlp_processor.py: the crop extraction and the context of a message *)

\* the dictionary `cultures` of extraire_culture, in the order it is written
cultures_variantes ==
  << [ culture_std |-> <<"m","a","ï","s">>,
       variantes |-> << <<"m","a","i","s">>, <<"m","a","ï","s">>, <<"m","a","i","z">> >> ],
     [ culture_std |-> <<"m","i","l">>,
       variantes |-> << <<"m","i","l">>, <<"m","i","l","l","e","t">> >> ],
     [ culture_std |-> <<"s","o","r","g","h","o">>,
       variantes |-> << <<"s","o","r","g","h","o">>, <<"s","o","r","g","o">> >> ],
     [ culture_std |-> <<"r","i","z">>,
       variantes |-> << <<"r","i","z">>, <<"p","a","d","d","y">> >> ],
     [ culture_std |-> <<"t","o","m","a","t","e">>,
       variantes |-> << <<"t","o","m","a","t","e">>, <<"t","o","m","a","t","e","s">> >> ],
     [ culture_std |-> <<"o","i","g","n","o","n">>,
       variantes |-> << <<"o","i","g","n","o","n">>, <<"o","i","g","n","o","n","s">>, <<"o","g","n","o","n">> >> ],
     [ culture_std |-> <<"a","r","a","c","h","i","d","e">>,
       variantes |-> << <<"a","r","a","c","h","i","d","e">>, <<"a","r","a","c","h","i","d","e","s">>, <<"c","a","c","a","h","u","è","t","e">> >> ],
     [ culture_std |-> <<"n","i","é","b","é">>,
       variantes |-> << <<"n","i","é","b","é">>, <<"n","i","e","b","e">>, <<"h","a","r","i","c","o","t">> >> ],
     [ culture_std |-> <<"c","o","t","o","n">>,
       variantes |-> << <<"c","o","t","o","n">> >> ],
     [ culture_std |-> <<"s","é","s","a","m","e">>,
       variantes |-> << <<"s","é","s","a","m","e">>, <<"s","e","s","a","m","e">> >> ],
     [ culture_std |-> <<"c","h","o","u">>,
       variantes |-> << <<"c","h","o","u">>, <<"c","h","o","u","x">> >> ],
     [ culture_std |-> <<"s","a","l","a","d","e">>,
       variantes |-> << <<"s","a","l","a","d","e">>, <<"l","a","i","t","u","e">> >> ] >>

\* mutant: the table gone through from its end, the last crop found wins
RECURSIVE extraire_culture_last(_, _)
extraire_culture_last(c, texte_lower) ==
  IF c > Len(cultures_variantes) THEN ReturnedNone
  ELSE LET later == extraire_culture_last(c + 1, texte_lower)
       IN  IF later # ReturnedNone THEN later
           ELSE IF \E v \in DOMAIN cultures_variantes[c].variantes :
                     Contains(cultures_variantes[c].variantes[v], texte_lower)
                  THEN ReturnedValue(cultures_variantes[c].culture_std)
                  ELSE ReturnedNone

\* `for culture_std, variantes in cultures.items(): for variante in variantes:
\*    if variante in texte_lower: return culture_std`, from crop c on
RECURSIVE extraire_culture_loop(_, _)
extraire_culture_loop(c, texte_lower) ==
  IF c > Len(cultures_variantes) THEN ReturnedNone
  ELSE IF \E v \in DOMAIN cultures_variantes[c].variantes :
            Contains(cultures_variantes[c].variantes[v], texte_lower)
         THEN ReturnedValue(cultures_variantes[c].culture_std)
         ELSE extraire_culture_loop(c + 1, texte_lower)

extraire_culture(texte) == extraire_culture_loop(1, lower(texte))

\* mutant: without a crop in the message, the crop of the last question is
\* taken for it
analyser_contexte_carry(texte, historique) ==
  LET now == extraire_culture(texte)
      before == IF historique # <<>>
                  THEN extraire_culture(historique[Len(historique)])
                  ELSE ReturnedNone
  IN  IF historique # <<>> /\ historique[Len(historique)] # <<>>
        THEN [ culture_mentionnee |-> IF now = ReturnedNone THEN before ELSE now,
               contexte_precedent |-> before ]
        ELSE [ culture_mentionnee |-> now ]

\* analyser_contexte: of the entries of the context, the crop of the message
\* and, when the history has a last question that is not empty, the crop of
\* that question.  The other entries (greeting, thanks, city, number, tone,
\* urgency) are computed from texte alone by other methods.
analyser_contexte(texte, historique) ==
  LET contexte == [ culture_mentionnee |-> extraire_culture(texte) ]
  IN  IF historique # <<>> /\ historique[Len(historique)] # <<>>
        THEN contexte @@
               ("contexte_precedent" :> extraire_culture(historique[Len(historique)]))
        ELSE contexte

\* the fragments of the texts given to the extraction
Words ==
  { <<" ">>,
    <<"M","A","I","S">>,
    <<"m","i","l","l","e","t">>,
    <<"r","i","z">>,
    <<"H","a","r","i","c","o","t">>,
    <<"c","h","o","u","x">>,
    <<"b","l","é">> }

RECURSIVE Phrases(_)
Phrases(n) ==
  IF n = 0 THEN {<<>>}
  ELSE Phrases(n - 1) \cup {t \o w : t \in Phrases(n - 1), w \in Words}

\* the questions asked before
Questions == { <<>>, <<"r","i","z">>, <<"R","i","z"," ","m","i","l">>, <<"b","l","é">> }

RECURSIVE Histories(_)
Histories(n) ==
  IF n = 0 THEN {<<>>}
  ELSE Histories(n - 1)
         \cup {Append(h, q) : h \in {g \in Histories(n - 1) : Len(g) = n - 1},
                              q \in Questions}

call_extraire_culture ==
  /\ call = NoCall
  /\ \E texte \in Phrases(MaxWords) :
       call' = [ op |-> "extraire_culture", arg |-> texte,
                 outcome |-> extraire_culture(texte) ]
  /\ UNCHANGED <<session, request, user_input, result, inflight, display, store, base>>

call_analyser_contexte ==
  /\ call = NoCall
  /\ \E texte \in Phrases(MaxWords), historique \in Histories(MaxHistory) :
       call' = [ op |-> "analyser_contexte",
                 arg |-> [ texte |-> texte, historique |-> historique ],
                 outcome |-> ReturnedValue(analyser_contexte(texte, historique)) ]
  /\ UNCHANGED <<session, request, user_input, result, inflight, display, store, base>>

\* the caller has used the outcome
call_done ==
  /\ call # NoCall
  /\ call' = NoCall
  /\ UNCHANGED <<session, request, user_input, result, inflight, display, store, base>>

NextNlp == call_extraire_culture \/ call_analyser_contexte \/ call_done

SpecNlp == Init /\ [][NextNlp]_vars

-----------------------------------------------------------------------------
(* weather_service.py.  A temperature is in hundredths of a degree in the
   answer of the service and in tenths once rounded; the answers are those
   whose temperature is not half way between two tenths. *)

\* data['list'][:8]
MaxPrevisions == 8

\* JSON values: a number, a text, null
JNum(n) == [ json |-> "number", n |-> n ]
JStr(t) == [ json |-> "string", t |-> t ]
JNull == [ json |-> "null" ]

\* a body that is not JSON: response.json() raises
NotJson == [ json |-> "invalid" ]

\* round(x, 1)
round_1(x) == JNum((x.n + 5) \div 10)

\* the item of a forecast
item(temp, humidity, description) ==
  [ dt_txt |-> JStr(<<"1","2",":","0","0">>),
    main |-> [ temp |-> temp, humidity |-> humidity ],
    weather |-> << [ description |-> description ] >> ]

Temperatures == { JNum(2512), JNum(3804), JNum(3806), JNull }
Humidities == { JNum(29), JNum(30), JNull }
Descriptions ==
  { JStr(<<"c","i","e","l"," ","d","é","g","a","g","é">>),
    JStr(<<"L","é","g","è","r","e"," ","P","l","u","i","e">>),
    JStr(<<"o","r","a","g","e">>),
    JNull }

\* what requests.get gives for the current weather
WeatherResponses ==
  { [ kind |-> "exception", status_code |-> 0, body |-> NotJson ] }
    \cup { [ kind |-> "response", status_code |-> c, body |-> NotJson ] :
             c \in {200, 401, 404, 500} }
    \cup { [ kind |-> "response", status_code |-> 200,
             body |-> [ cod |-> JNum(200) ] ] }
    \cup { [ kind |-> "response", status_code |-> 200,
             body |-> [ main |-> [ temp |-> t, humidity |-> h ],
                        weather |-> <<>>,
                        name |-> JStr(<<"K","a","y","a">>) ] ] :
             t \in {JNum(2512)}, h \in {JNum(30)} }
    \cup { [ kind |-> "response", status_code |-> c,
             body |-> [ main |-> [ temp |-> t, humidity |-> h ],
                        weather |-> << [ description |-> d ] >>,
                        name |-> JStr(<<"K","a","y","a">>) ] ] :
             c \in {200, 404}, t \in Temperatures, h \in Humidities,
             d \in Descriptions }

\* what requests.get gives for the forecast: n items, the one at place bad
\* without its 'main' (none for bad = 0)
ForecastResponses ==
  { [ kind |-> "exception", status_code |-> 0, body |-> NotJson ] }
    \cup { [ kind |-> "response", status_code |-> c, body |-> NotJson ] :
             c \in {200, 401, 500} }
    \cup { [ kind |-> "response", status_code |-> 200,
             body |-> [ cod |-> JNum(200) ] ] }
    \cup { [ kind |-> "response", status_code |-> c,
             body |-> [ list |->
                          [ i \in 1..n |->
                              IF i = bad
                                THEN [ dt_txt |-> JStr(<<"1","2",":","0","0">>) ]
                                ELSE item(t, JNum(40 + i), d) ] ] ] :
             c \in {200, 500}, n \in {0, 2, MaxPrevisions, MaxPrevisions + 1},
             bad \in {0, 1, MaxPrevisions + 1},
             t \in {JNum(2512), JNum(3806), JNull},
             d \in {JStr(<<"o","r","a","g","e">>)} }

\* the exceptions the try block of a lookup meets on a body, all caught by
\* `except Exception`
meteo_raises(body) ==
  \/ body = NotJson
  \/ "main" \notin DOMAIN body
  \/ "temp" \notin DOMAIN body.main
  \/ body.main.temp.json # "number"
  \/ "humidity" \notin DOMAIN body.main
  \/ "weather" \notin DOMAIN body
  \/ body.weather = <<>>
  \/ "description" \notin DOMAIN body.weather[1]
  \/ "name" \notin DOMAIN body

\* mutant: the status of the response not tested
obtenir_meteo_actuelle_any_status(response) ==
  IF response.kind = "exception" THEN ReturnedNone
  ELSE IF meteo_raises(response.body) THEN ReturnedNone
  ELSE ReturnedValue([ temperature |-> round_1(response.body.main.temp),
                       humidite |-> response.body.main.humidity,
                       description |-> response.body.weather[1].description,
                       ville |-> response.body.name ])

\* obtenir_meteo_actuelle, given what requests.get gives
obtenir_meteo_actuelle(response) ==
  IF response.kind = "exception" THEN ReturnedNone
  ELSE IF response.status_code = 200
         THEN IF meteo_raises(response.body) THEN ReturnedNone
              ELSE ReturnedValue(
                     [ temperature |-> round_1(response.body.main.temp),
                       humidite |-> response.body.main.humidity,
                       description |-> response.body.weather[1].description,
                       ville |-> response.body.name ])
         ELSE ReturnedNone

item_raises(it) ==
  \/ "dt_txt" \notin DOMAIN it
  \/ "main" \notin DOMAIN it
  \/ "temp" \notin DOMAIN it.main
  \/ it.main.temp.json # "number"
  \/ "weather" \notin DOMAIN it
  \/ it.weather = <<>>
  \/ "description" \notin DOMAIN it.weather[1]
  \/ "humidity" \notin DOMAIN it.main

\* obtenir_previsions, given what requests.get gives
obtenir_previsions(response) ==
  IF response.kind = "exception" THEN ReturnedValue(<<>>)
  ELSE IF response.status_code = 200
         THEN IF response.body = NotJson \/ "list" \notin DOMAIN response.body
                THEN ReturnedValue(<<>>)
                ELSE LET items == SubSeq(response.body.list, 1,
                                         IF Len(response.body.list) < MaxPrevisions
                                           THEN Len(response.body.list)
                                           ELSE MaxPrevisions)
                     IN  IF \E i \in DOMAIN items : item_raises(items[i])
                           THEN ReturnedValue(<<>>)
                           ELSE ReturnedValue(
                                  [ i \in DOMAIN items |->
                                      [ heure |-> items[i].dt_txt,
                                        temperature |-> round_1(items[i].main.temp),
                                        description |-> items[i].weather[1].description,
                                        humidite |-> items[i].main.humidity ] ])
         ELSE ReturnedValue(<<>>)

\* the texts of the alerts
alerte_secheresse ==
  "Alerte sécheresse : Humidité très faible, irrigation recommandée"
alerte_chaleur ==
  "{U+1F321}{U+FE0F} Alerte chaleur : Températures extrêmes, protégez vos cultures"
alerte_pluie ==
  "{U+1F327}{U+FE0F} Alerte pluie : Précipitations attendues, vérifiez le drainage"

\* verifier_alertes, given what requests.get gives to obtenir_meteo_actuelle.
\* The tests are made outside any try block: `None < 30` raises TypeError and
\* None.lower() raises AttributeError.
verifier_alertes(response) ==
  LET meteo == obtenir_meteo_actuelle(response)
  IN  IF meteo = ReturnedNone THEN ReturnedValue(<<>>)
      ELSE LET m == meteo.value
           IN  IF m.humidite.json # "number" THEN RaisedError("TypeError")
               ELSE IF m.description.json # "string" THEN RaisedError("AttributeError")
               ELSE ReturnedValue(
                      (IF m.humidite.n < 30 THEN <<alerte_secheresse>> ELSE <<>>)
                        \o (IF m.temperature.n > 380 THEN <<alerte_chaleur>> ELSE <<>>)
                        \o (IF \/ Contains(<<"p","l","u","i","e">>, lower(m.description.t))
                               \/ Contains(<<"o","r","a","g","e">>, lower(m.description.t))
                              THEN <<alerte_pluie>> ELSE <<>>))

call_obtenir_meteo_actuelle ==
  /\ call = NoCall
  /\ \E response \in WeatherResponses :
       call' = [ op |-> "obtenir_meteo_actuelle", arg |-> response,
                 outcome |-> obtenir_meteo_actuelle(response) ]
  /\ UNCHANGED <<session, request, user_input, result, inflight, display, store, base>>

call_obtenir_previsions ==
  /\ call = NoCall
  /\ \E response \in ForecastResponses :
       call' = [ op |-> "obtenir_previsions", arg |-> response,
                 outcome |-> obtenir_previsions(response) ]
  /\ UNCHANGED <<session, request, user_input, result, inflight, display, store, base>>

call_verifier_alertes ==
  /\ call = NoCall
  /\ \E response \in WeatherResponses :
       call' = [ op |-> "verifier_alertes", arg |-> response,
                 outcome |-> verifier_alertes(response) ]
  /\ UNCHANGED <<session, request, user_input, result, inflight, display, store, base>>

NextWeather ==
  \/ call_obtenir_meteo_actuelle
  \/ call_obtenir_previsions
  \/ call_verifier_alertes
  \/ call_done

SpecWeather == Init /\ [][NextWeather]_vars

-----------------------------------------------------------------------------
(* database.py: the DatabaseManager over its SQLite file.  A method gives the
   file after it and its outcome. *)

\* Python values in the data handed to the methods and in the rows
PyNone == [ py |-> "None" ]
PyStr(chars) == [ py |-> "str", chars |-> chars ]
PyList(items) == [ py |-> "list", items |-> items ]

\* dict.get(key)
get(d, key) == IF key \in DOMAIN d THEN d[key] ELSE PyNone

\* the statements _init_db executes, in order: the table of the statement and
\* whether its SQL text holds remarks written after `#`
tables_ddl ==
  << [ table |-> "cultures", hash |-> TRUE ],
     [ table |-> "varietes", hash |-> TRUE ],
     [ table |-> "periodes_plantation", hash |-> TRUE ],
     [ table |-> "maladies", hash |-> TRUE ],
     [ table |-> "culture_maladies", hash |-> TRUE ],
     [ table |-> "traitements", hash |-> TRUE ],
     [ table |-> "maladie_traitements", hash |-> TRUE ],
     [ table |-> "engrais", hash |-> TRUE ],
     [ table |-> "culture_engrais", hash |-> TRUE ],
     [ table |-> "parasites", hash |-> TRUE ],
     [ table |-> "culture_parasites", hash |-> TRUE ],
     [ table |-> "methodes_lutte_parasites", hash |-> TRUE ],
     [ table |-> "associations_benefiques", hash |-> TRUE ],
     [ table |-> "conversations", hash |-> FALSE ],
     [ table |-> "alertes_meteo", hash |-> FALSE ] >>

\* sqlite3.OperationalError: unrecognized token: "#".  SQLite reads `--` and
\* `/* */` as remarks; `#` is no token of its SQL.
UnrecognizedToken == RaisedError("sqlite3.OperationalError: unrecognized token")

\* sqlite3.OperationalError: database is locked
DatabaseLocked == RaisedError("sqlite3.OperationalError: database is locked")

\* cursor.execute of the statements of _init_db from the i-th on
RECURSIVE _init_db_loop(_, _)
_init_db_loop(b, i) ==
  IF i > Len(tables_ddl) THEN [ base |-> b, outcome |-> ReturnedNone ]
  ELSE IF tables_ddl[i].hash THEN [ base |-> b, outcome |-> UnrecognizedToken ]
  ELSE _init_db_loop([b EXCEPT !.tables = @ \cup {tables_ddl[i].table}], i + 1)

\* DatabaseManager._init_db
_init_db(b) == _init_db_loop(b, 1)

\* DatabaseManager(db_path): the exception of _init_db leaves __init__ and no
\* object is made
DatabaseManager(b) ==
  LET made == _init_db(b)
  IN  IF made.outcome.kind = "raised" THEN made
      ELSE [ base |-> [made.base EXCEPT !.manager = "constructed"],
             outcome |-> ReturnedValue("DatabaseManager") ]

\* json.dumps of the texts of a list, ensure_ascii=False
RECURSIVE json_dumps_items(_)
json_dumps_items(items) ==
  IF items = <<>> THEN <<>>
  ELSE <<"\"">> \o items[1] \o <<"\"">>
         \o (IF Len(items) = 1 THEN <<>>
             ELSE <<",", " ">> \o json_dumps_items(Tail(items)))

json_dumps(list) == PyStr(<<"[">> \o json_dumps_items(list.items) \o <<"]">>)

\* the place from i on where a quote stands, 0 when there is none
RECURSIVE closing_quote(_, _)
closing_quote(chars, i) ==
  IF i > Len(chars) THEN 0
  ELSE IF chars[i] = "\"" THEN i
  ELSE closing_quote(chars, i + 1)

JsonError == [ ok |-> FALSE, items |-> <<>> ]

\* the texts of a JSON array read from place i, where a text has to start
RECURSIVE json_elements(_, _)
json_elements(chars, i) ==
  IF i > Len(chars) \/ chars[i] # "\"" THEN JsonError
  ELSE LET j == closing_quote(chars, i + 1)
       IN  IF j = 0 THEN JsonError
           ELSE IF j + 1 = Len(chars) /\ chars[j + 1] = "]"
                  THEN [ ok |-> TRUE, items |-> << SubSeq(chars, i + 1, j - 1) >> ]
           ELSE IF j + 1 < Len(chars) /\ chars[j + 1] = ","
                  THEN LET k == IF chars[j + 2] = " " THEN j + 3 ELSE j + 2
                           rest == json_elements(chars, k)
                       IN  IF rest.ok
                             THEN [ ok |-> TRUE,
                                    items |-> << SubSeq(chars, i + 1, j - 1) >>
                                                \o rest.items ]
                             ELSE JsonError
           ELSE JsonError

Digits == {"0","1","2","3","4","5","6","7","8","9"}

\* json.loads on a stored value: an array of texts, a number, or no JSON
json_loads(value) ==
  IF value.py # "str" THEN RaisedError("TypeError")
  ELSE IF value.chars = <<"[", "]">> THEN ReturnedValue(PyList(<<>>))
  ELSE IF value.chars # <<>> /\ value.chars[1] = "["
         THEN LET read == json_elements(value.chars, 2)
              IN  IF read.ok THEN ReturnedValue(PyList(read.items))
                  ELSE RaisedError("json.JSONDecodeError")
  ELSE IF value.chars # <<>> /\ \A i \in DOMAIN value.chars : value.chars[i] \in Digits
         THEN ReturnedValue([ py |-> "int", chars |-> value.chars ])
  ELSE RaisedError("json.JSONDecodeError")

\* a stored list field read back: [] for NULL and '', and for what json.loads
\* refuses
decode_field(value) ==
  IF value = PyNone \/ value = PyStr(<<>>) THEN PyList(<<>>)
  ELSE IF json_loads(value).kind = "raised" THEN PyList(<<>>)
  ELSE json_loads(value).value

\* the rows of a table whose name is the given one under SQL LOWER
rows_named(table, nom) ==
  SelectSeq(table, LAMBDA row : sql_lower(row.nom) = sql_lower(nom))

\* cursor.lastrowid of an INSERT into an AUTOINCREMENT table
lastrowid(table) == IF table = <<>> THEN 1 ELSE table[Len(table)].id + 1

\* a list kept as JSON text, any other value kept as it is
dumps_if_list(value) == IF value.py = "list" THEN json_dumps(value) ELSE value

\* DatabaseManager.ajouter_culture
ajouter_culture(b, culture_data) ==
  IF "nom" \notin DOMAIN culture_data \/ "type_culture" \notin DOMAIN culture_data
    THEN [ base |-> b, outcome |-> RaisedError("KeyError") ]
  ELSE
    LET data == [ nom |-> culture_data.nom,
                  type_culture |-> culture_data.type_culture,
                  type_sol |-> dumps_if_list(get(culture_data, "type_sol")),
                  conditions_climatiques |->
                    dumps_if_list(get(culture_data, "conditions_climatiques")),
                  conseils_generaux |->
                    dumps_if_list(get(culture_data, "conseils_generaux")) ]
        existing == rows_named(b.cultures, culture_data.nom)
    IN  IF b.writer # "none" THEN [ base |-> b, outcome |-> DatabaseLocked ]
        ELSE IF existing # <<>>
          THEN LET culture_id == existing[1].id
               IN  IF \E i \in DOMAIN b.cultures :
                        /\ b.cultures[i].id # culture_id
                        /\ b.cultures[i].nom = data.nom
                     THEN [ base |-> b,
                            outcome |-> RaisedError("sqlite3.IntegrityError") ]
                     ELSE [ base |->
                              [b EXCEPT !.cultures =
                                 [i \in DOMAIN b.cultures |->
                                    IF b.cultures[i].id = culture_id
                                      THEN [ id |-> culture_id ] @@ data
                                      ELSE b.cultures[i]]],
                            outcome |-> ReturnedValue(culture_id) ]
          ELSE [ base |->
                   [b EXCEPT !.cultures =
                      Append(@, [ id |-> lastrowid(b.cultures) ] @@ data)],
                 outcome |-> ReturnedValue(lastrowid(b.cultures)) ]

\* x BETWEEN low AND high
BETWEEN(x, low, high) == low <= x /\ x <= high

\* the WHERE clause of ajouter_periode_plantation
periode_existing(row, periode_data) ==
  /\ row.culture_id = periode_data.culture_id
  /\ row.saison = periode_data.saison
  /\ \/ BETWEEN(row.mois_debut, periode_data.mois_debut, periode_data.mois_fin)
     \/ BETWEEN(row.mois_fin, periode_data.mois_debut, periode_data.mois_fin)
     \/ BETWEEN(periode_data.mois_debut, row.mois_debut, row.mois_fin)
     \/ BETWEEN(periode_data.mois_fin, row.mois_debut, row.mois_fin)

\* DatabaseManager.ajouter_periode_plantation
ajouter_periode_plantation(b, periode_data) ==
  LET existing == SelectSeq(b.periodes_plantation,
                            LAMBDA row : periode_existing(row, periode_data))
      data == [ culture_id |-> periode_data.culture_id,
                saison |-> periode_data.saison,
                mois_debut |-> periode_data.mois_debut,
                mois_fin |-> periode_data.mois_fin ]
  IN  IF b.writer # "none" THEN [ base |-> b, outcome |-> DatabaseLocked ]
      ELSE IF existing # <<>>
        THEN [ base |->
                 [b EXCEPT !.periodes_plantation =
                    [i \in DOMAIN b.periodes_plantation |->
                       IF b.periodes_plantation[i].id = existing[1].id
                         THEN [ id |-> existing[1].id ] @@ data
                         ELSE b.periodes_plantation[i]]],
               outcome |-> ReturnedValue(existing[1].id) ]
        ELSE [ base |->
                 [b EXCEPT !.periodes_plantation =
                    Append(@, [ id |-> lastrowid(b.periodes_plantation) ] @@ data)],
               outcome |-> ReturnedValue(lastrowid(b.periodes_plantation)) ]

\* DatabaseManager.rechercher_culture_par_nom: the row with its list fields
\* decoded (the varieties, periods and other lists joined to it are left out)
rechercher_culture_par_nom(b, nom) ==
  IF "cultures" \notin b.tables
    THEN [ base |-> b, outcome |-> NoSuchTable ]
  ELSE IF rows_named(b.cultures, nom) = <<>>
    THEN [ base |-> b, outcome |-> ReturnedNone ]
  ELSE [ base |-> b,
         outcome |->
           ReturnedValue(
             [rows_named(b.cultures, nom)[1] EXCEPT
                !.type_sol = decode_field(@),
                !.conditions_climatiques = decode_field(@),
                !.conseils_generaux = decode_field(@)]) ]

\* the cultures of the file written one after the other, each by
\* ajouter_culture and its periods by ajouter_periode_plantation, on their own
\* connections; stops at the first exception
RECURSIVE importer_cultures(_, _)
importer_cultures(b, cultures_data) ==
  IF cultures_data = <<>> THEN [ base |-> b, outcome |-> ReturnedNone ]
  ELSE LET culture == ajouter_culture(b, cultures_data[1].culture)
           periode == IF culture.outcome.kind = "raised"
                          \/ cultures_data[1].periodes_plantation = <<>>
                        THEN culture
                        ELSE ajouter_periode_plantation(
                               culture.base,
                               [ culture_id |-> culture.outcome.value ]
                                 @@ cultures_data[1].periodes_plantation[1])
       IN  IF periode.outcome.kind = "raised" THEN periode
           ELSE importer_cultures(periode.base, Tail(cultures_data))

\* DatabaseManager.importer_depuis_json.  The DELETE statements open a
\* transaction on the connection of the import, which holds the write lock up
\* to conn.commit(); the rows as the other connections see them stay those of
\* before.  An exception inside the with block rolls the deletions back.
\* The commit is reached only when nothing was written on another connection,
\* and then leaves the tables empty.
importer_depuis_json(b, fichier) ==
  IF fichier.kind # "json" THEN [ base |-> b, outcome |-> ReturnedValue(FALSE) ]
  ELSE IF "cultures" \notin b.tables
    THEN [ base |-> b, outcome |-> ReturnedValue(FALSE) ]
  ELSE LET written == importer_cultures([b EXCEPT !.writer = "import"],
                                        fichier.cultures)
       IN  IF written.outcome.kind = "raised"
             THEN [ base |-> b, outcome |-> ReturnedValue(FALSE) ]
             ELSE [ base |-> [b EXCEPT !.cultures = <<>>,
                                       !.periodes_plantation = <<>>],
                    outcome |-> ReturnedValue(TRUE) ]

Mais == <<"M","a","ï","s">>
Mil == <<"M","i","l">>
Argileux == <<"a","r","g","i","l","e","u","x">>
Limoneux == <<"l","i","m","o","n","e","u","x">>

CultureNames == { Mais, <<"m","a","ï","s">>, <<"M","A","Ï","S">>, Mil, <<"M","I","L">> }

\* the data handed to ajouter_culture
CultureData ==
  { [ nom |-> nom, type_culture |-> "céréale" ] : nom \in CultureNames }
    \cup { [ nom |-> nom, type_culture |-> "céréale", type_sol |-> type_sol ] :
             nom \in CultureNames,
             type_sol \in { PyList(<<>>), PyList(<<Argileux, Limoneux>>),
                            PyStr(Argileux) } }

Mois == 1..12

\* the data handed to ajouter_periode_plantation
PeriodeData ==
  { [ culture_id |-> culture_id, saison |-> saison,
      mois_debut |-> mois_debut, mois_fin |-> mois_fin ] :
      culture_id \in {1, 2}, saison \in {"Pluie", "Sèche"},
      mois_debut \in Mois, mois_fin \in Mois }

\* rows of cultures another program wrote into the file, their list fields
\* NULL, empty, no JSON, or JSON
OtherCultures ==
  { [ nom |-> Mais, type_culture |-> "céréale",
      type_sol |-> PyStr(<<"[","\"","a","r","g","i","l","e","u","x">>),
      conditions_climatiques |-> PyStr(<<>>),
      conseils_generaux |-> PyNone ],
    [ nom |-> Mil, type_culture |-> "céréale",
      type_sol |-> PyStr(Argileux),
      conditions_climatiques |-> json_dumps(PyList(<<Argileux>>)),
      conseils_generaux |-> PyStr(<<"1","2">>) ] }

\* the file handed to importer_depuis_json: missing, no JSON, or the cultures
\* of a well-formed file, each with its periods
Fichiers ==
  { [ kind |-> "missing", cultures |-> <<>> ],
    [ kind |-> "no json", cultures |-> <<>> ] }
    \cup { [ kind |-> "json", cultures |-> cs ] :
             cs \in { <<>> }
               \cup { << [ culture |-> c, periodes_plantation |-> ps ] >> :
                        c \in CultureData,
                        ps \in { <<>>,
                                 << [ saison |-> "Pluie", mois_debut |-> 5,
                                      mois_fin |-> 7 ] >> } }
               \cup { << [ culture |-> [ nom |-> Mais, type_culture |-> "céréale" ],
                           periodes_plantation |-> <<>> ],
                         [ culture |-> [ nom |-> nom, type_culture |-> "céréale" ],
                           periodes_plantation |-> <<>> ] >> :
                        nom \in CultureNames } }

\* init_database(): db = DatabaseManager().  In the actions below a method is
\* called on a manager made the same way, and is not reached when __init__
\* raises.
call_DatabaseManager ==
  /\ call = NoCall
  /\ base' = DatabaseManager(base).base
  /\ call' = [ op |-> "DatabaseManager", arg |-> "agriculture_burkina.db",
               before |-> base, outcome |-> DatabaseManager(base).outcome ]
  /\ UNCHANGED <<session, request, user_input, result, inflight, display, store>>

call_ajouter_culture ==
  /\ call = NoCall
  /\ \E culture_data \in CultureData :
       LET db == DatabaseManager(base)
           done == IF db.outcome.kind = "raised" THEN db
                   ELSE ajouter_culture(db.base, culture_data)
       IN  /\ base' = done.base
           /\ call' = [ op |-> "ajouter_culture", arg |-> culture_data,
                        before |-> base, outcome |-> done.outcome ]
  /\ UNCHANGED <<session, request, user_input, result, inflight, display, store>>

call_ajouter_periode_plantation ==
  /\ call = NoCall
  /\ \E periode_data \in PeriodeData :
       LET db == DatabaseManager(base)
           done == IF db.outcome.kind = "raised" THEN db
                   ELSE ajouter_periode_plantation(db.base, periode_data)
       IN  /\ base' = done.base
           /\ call' = [ op |-> "ajouter_periode_plantation", arg |-> periode_data,
                        before |-> base, outcome |-> done.outcome ]
  /\ UNCHANGED <<session, request, user_input, result, inflight, display, store>>

call_rechercher_culture_par_nom ==
  /\ call = NoCall
  /\ \E nom \in CultureNames :
       LET db == DatabaseManager(base)
           done == IF db.outcome.kind = "raised" THEN db
                   ELSE rechercher_culture_par_nom(db.base, nom)
       IN  /\ base' = done.base
           /\ call' = [ op |-> "rechercher_culture_par_nom", arg |-> nom,
                        before |-> base, outcome |-> done.outcome ]
  /\ UNCHANGED <<session, request, user_input, result, inflight, display, store>>

call_importer_depuis_json ==
  /\ call = NoCall
  /\ \E fichier \in Fichiers :
       LET db == DatabaseManager(base)
           done == IF db.outcome.kind = "raised" THEN db
                   ELSE importer_depuis_json(db.base, fichier)
       IN  /\ base' = done.base
           /\ call' = [ op |-> "importer_depuis_json", arg |-> fichier,
                        before |-> base, outcome |-> done.outcome ]
  /\ UNCHANGED <<session, request, user_input, result, inflight, display, store>>

\* another program makes the tables in the file and writes a culture
other_writes_culture ==
  /\ call = NoCall
  /\ \E culture \in OtherCultures :
       /\ rows_named(base.cultures, culture.nom) = <<>>
       /\ base' = [base EXCEPT
                     !.tables = { tables_ddl[i].table : i \in DOMAIN tables_ddl },
                     !.cultures = Append(@, [ id |-> lastrowid(base.cultures) ]
                                              @@ culture)]
  /\ UNCHANGED <<session, request, user_input, result, inflight, display, store, call>>

NextBase ==
  \/ call_DatabaseManager
  \/ call_ajouter_culture
  \/ call_ajouter_periode_plantation
  \/ call_rechercher_culture_par_nom
  \/ call_importer_depuis_json
  \/ other_writes_culture
  \/ call_done

SpecBase == Init /\ [][NextBase]_vars

-----------------------------------------------------------------------------
(* Overlapping chat() requests of one session *)

\* Flask's `session` is an object of the request: it is loaded from the
\* session cookie the request carries, and the response stores it back into
\* the browser's cookie when the handler assigned to it.  Under this
\* specification `session` is the browser's cookie and every request of
\* `inflight` has its own copy; app.run (app.py:307) serves each request on
\* its own thread.

\* a request arrives: the form field is read, the cookie loaded
chat_begin ==
  /\ Len(inflight) < MaxRequests
  /\ \E raw \in FormInputs :
       LET text == form_input(raw)
       IN  inflight' =
             Append(inflight,
                    [ input |-> raw, text |-> text, session |-> session,
                      conversation |-> <<>>, reply |-> NoResult,
                      pc |-> IF text = <<>> THEN "done" ELSE "compose" ])
  /\ UNCHANGED <<session, request, user_input, result, display, store, base, call>>

\* bot_response, confidence, source = process_user_message(user_input)
chat_compose(r) ==
  /\ inflight[r].pc = "compose"
  /\ inflight' = [inflight EXCEPT
                    ![r].reply = process_user_message(inflight[r].text),
                    ![r].pc = "read"]
  /\ UNCHANGED <<session, request, user_input, result, display, store, base, call>>

\* conversation = get_conversation()
chat_read(r) ==
  /\ inflight[r].pc = "read"
  /\ LET got == get_conversation(inflight[r].session)
     IN  inflight' = [inflight EXCEPT
                        ![r].session = got.session,
                        ![r].conversation = got.conversation,
                        ![r].pc = "append"]
  /\ UNCHANGED <<session, request, user_input, result, display, store, base, call>>

\* conversation.append({...}): the list is the one the request's session holds
chat_append(r) ==
  /\ inflight[r].pc = "append"
  /\ \E i \in DOMAIN Clock :
       LET conversation ==
             append(inflight[r].conversation,
                    turn(inflight[r].text, inflight[r].reply, Clock[i]))
       IN  inflight' = [inflight EXCEPT
                          ![r].conversation = conversation,
                          ![r].session.conversation = conversation,
                          ![r].pc = "write"]
  /\ UNCHANGED <<session, request, user_input, result, display, store, base, call>>

\* session['conversation'] = conversation
chat_write(r) ==
  /\ inflight[r].pc = "write"
  /\ inflight' = [inflight EXCEPT
                    ![r].session.conversation = inflight[r].conversation,
                    ![r].pc = "respond"]
  /\ UNCHANGED <<session, request, user_input, result, display, store, base, call>>

\* the response reaches the browser with the request's session as cookie
chat_respond(r) ==
  /\ inflight[r].pc = "respond"
  /\ session' = inflight[r].session
  /\ inflight' = [inflight EXCEPT ![r].pc = "done"]
  /\ UNCHANGED <<request, user_input, result, display, store, base, call>>

NextConcurrent ==
  \/ chat_begin
  \/ \E r \in DOMAIN inflight : chat_compose(r)
  \/ \E r \in DOMAIN inflight : chat_read(r)
  \/ \E r \in DOMAIN inflight : chat_append(r)
  \/ \E r \in DOMAIN inflight : chat_write(r)
  \/ \E r \in DOMAIN inflight : chat_respond(r)

SpecConcurrent == Init /\ [][NextConcurrent]_vars

-----------------------------------------------------------------------------
(* The formatting of the chosen text.  Its code is not in src/chatbot_agricole:
   it is modelled from the specification, section 4.4: "newline characters
   become line breaks, and text wrapped in a bold-markup convention
   (double-asterisk delimiters) is converted to emphasized inline markup". *)

\* newline characters become line breaks
RECURSIVE line_breaks(_)
line_breaks(text) ==
  IF text = <<>> THEN <<>>
  ELSE (IF Head(text) = "\n" THEN <<"<","b","r",">">> ELSE <<Head(text)>>)
         \o line_breaks(Tail(text))

\* position of the first double asterisk at or after i, 0 when there is none
RECURSIVE next_stars(_, _)
next_stars(text, i) ==
  IF i + 1 > Len(text) THEN 0
  ELSE IF text[i] = "*" /\ text[i + 1] = "*" THEN i
  ELSE next_stars(text, i + 1)

\* text wrapped in double asterisks becomes emphasized markup, pair by pair
\* from the left; a double asterisk without a closing one stays
RECURSIVE emphasis(_)
emphasis(text) ==
  LET opening == next_stars(text, 1)
      closing == IF opening = 0 THEN 0 ELSE next_stars(text, opening + 2)
  IN  IF closing = 0 THEN text
      ELSE SubSeq(text, 1, opening - 1)
             \o <<"<","s","t","r","o","n","g",">">>
             \o SubSeq(text, opening + 2, closing - 1)
             \o <<"<","/","s","t","r","o","n","g",">">>
             \o emphasis(SubSeq(text, closing + 2, Len(text)))

\* mutant: the line break added in front of the newline, which stays
RECURSIVE line_breaks_kept(_)
line_breaks_kept(text) ==
  IF text = <<>> THEN <<>>
  ELSE (IF Head(text) = "\n" THEN <<"<","b","r",">","\n">> ELSE <<Head(text)>>)
         \o line_breaks_kept(Tail(text))

format_response_kept(text) == emphasis(line_breaks_kept(text))

\* the formatting applied to the chosen text before it is returned
format_response(text) == emphasis(line_breaks(text))

\* the characters of the texts given to the formatting
MarkupChars == {"a", "*", "\n"}

RECURSIVE Markups(_)
Markups(n) ==
  IF n = 0 THEN {<<>>}
  ELSE Markups(n - 1)
         \cup {Append(t, c) : t \in {u \in Markups(n - 1) : Len(u) = n - 1},
                              c \in MarkupChars}

\* a chosen text is formatted
show ==
  /\ display.passes = 0
  /\ \E text \in Markups(MaxMarkup) :
       display' = [ text |-> text, once |-> format_response(text),
                    html |-> format_response(text), passes |-> 1 ]
  /\ UNCHANGED <<session, request, user_input, result, inflight, store, base, call>>

\* what was formatted is formatted again
show_again ==
  /\ display.passes = 1
  /\ display' = [display EXCEPT !.html = format_response(display.html),
                                !.passes = 2]
  /\ UNCHANGED <<session, request, user_input, result, inflight, store, base, call>>

\* the next text
show_next ==
  /\ display.passes = 2
  /\ display' = NoDisplay
  /\ UNCHANGED <<session, request, user_input, result, inflight, store, base, call>>

NextFormat == show \/ show_again \/ show_next

SpecFormat == Init /\ [][NextFormat]_vars

-----------------------------------------------------------------------------
(* What the claims speak of, stated apart from the code's own operators *)

GreetingKeywords ==
  { <<"b","o","n","j","o","u","r">>, <<"s","a","l","u","t">>,
    <<"c","o","u","c","o","u">>, <<"h","e","l","l","o">>,
    <<"h","e","y">>, <<"b","o","n","s","o","i","r">> }

HasGreeting(text) ==
  LET low == lower(text)
  IN  \E g \in GreetingKeywords : Contains(g, low)

Categories == DOMAIN knowledge_base

\* per category, the number of its keywords contained in the lowercased text
Hits(text) ==
  LET low == lower(text)
  IN  [c \in Categories |->
         Cardinality({k \in DOMAIN knowledge_base[c].keywords :
                        Contains(knowledge_base[c].keywords[k], low)})]

\* the greatest count of a table of counts
MaxOf(h) == h[CHOOSE c \in DOMAIN h : \A d \in DOMAIN h : h[d] <= h[c]]

\* the categories that have the greatest count
TopOf(h) == {c \in DOMAIN h : h[c] = MaxOf(h)}

\* text, confidence and source of a category
CategoryReply(c) ==
  [ response |-> knowledge_base[c].response,
    confidence |-> knowledge_base[c].confidence,
    source |-> knowledge_base[c].source ]

Returned == result # NoResult

-----------------------------------------------------------------------------
(* Claims about the composer, under SpecCompose *)

C2_GreetingShortCircuits ==
  (Returned /\ HasGreeting(user_input) /\ MaxOf(Hits(user_input)) > 0) =>
    /\ result.response = greeting_response
    /\ \A c \in Categories : result # CategoryReply(c)

\* a greeting together with two keyword hits of one category
C2_Witness ==
  /\ Returned
  /\ HasGreeting(user_input)
  /\ MaxOf(Hits(user_input)) >= 2
  /\ result.response = greeting_response

\* C3: an input with no greeting keyword and zero keyword hits in every
\* category gets the fallback menu text, confidence 0.50 and the system tag
\* (the code's literal 'Système').
C3_Fallback ==
  (Returned /\ ~ HasGreeting(user_input) /\ MaxOf(Hits(user_input)) = 0) =>
    result = [ response |-> default_response, confidence |-> 50,
               source |-> "Système" ]

\* a non-blank message without any keyword got the fallback
C3_Witness ==
  /\ Returned
  /\ strip(user_input) # <<>>
  /\ ~ HasGreeting(user_input)
  /\ MaxOf(Hits(user_input)) = 0
  /\ result.confidence = 50

\* C4: in the generic tier the chosen category has the maximal keyword-hit
\* count, a category is chosen whenever one has a hit, and the reply is the
\* chosen category's text, confidence and source.
C4_MaxHitsWins ==
  LET h == Hits(user_input)
  IN  (Returned /\ ~ HasGreeting(user_input) /\ MaxOf(h) > 0) =>
        \E c \in Categories :
          /\ result = CategoryReply(c)
          /\ \A d \in Categories : h[d] <= h[c]

\* the winner is not the first category with a hit: an earlier category has
\* a smaller, nonzero count
C4_Witness ==
  LET h == Hits(user_input)
  IN  /\ Returned
      /\ ~ HasGreeting(user_input)
      /\ \E c, d \in Categories :
           /\ d < c
           /\ 0 < h[d]
           /\ h[d] < h[c]
           /\ result = CategoryReply(c)

\* C5: when several categories share the same nonzero maximal count, the one
\* declared earliest in the category order is chosen.
C5_TieKeepsFirst ==
  LET h == Hits(user_input)
      tied == TopOf(h)
  IN  (/\ Returned
       /\ ~ HasGreeting(user_input)
       /\ MaxOf(h) > 0
       /\ Cardinality(tied) >= 2) =>
        \E c \in tied :
          /\ \A d \in tied : c <= d
          /\ result = CategoryReply(c)

\* a tie between two categories, neither of them the first of the table
C5_Witness ==
  LET h == Hits(user_input)
      tied == TopOf(h)
  IN  /\ Returned
      /\ ~ HasGreeting(user_input)
      /\ MaxOf(h) > 0
      /\ Cardinality(tied) = 2
      /\ 1 \notin tied
      /\ \E c \in tied : result = CategoryReply(c)

InGreetingTier == result = greeting_reply
InGenericTier == \E c \in Categories : result = CategoryReply(c)
InFallbackTier == result = default_reply

\* C6: every call returns, without raising, a non-empty text with a
\* confidence and a source that come from exactly one tier, and it is the
\* fallback tier when no other tier matches.
C6_AlwaysAnswers ==
  Returned =>
    /\ result # Raised
    /\ result.response # ""
    /\ result.source # ""
    /\ Cardinality({t \in {"greeting", "generic", "fallback"} :
         \/ t = "greeting" /\ InGreetingTier
         \/ t = "generic" /\ InGenericTier
         \/ t = "fallback" /\ InFallbackTier}) = 1
    /\ (~ HasGreeting(user_input) /\ MaxOf(Hits(user_input)) = 0)
         => InFallbackTier

\* the empty message reached the fallback
C6_Witness ==
  /\ Returned
  /\ user_input = <<>>
  /\ InFallbackTier

-----------------------------------------------------------------------------
(* Claims about the conversation log, under Spec *)

\* the log as a reader gets it
Log == get_conversation(session).conversation

IsBlank(text) == \A i \in DOMAIN text : text[i] \in {" ", "\t", "\n"}

\* the text of a form field without the blanks around it
Trimmed(text) ==
  LET solid == {i \in DOMAIN text : text[i] \notin {" ", "\t", "\n"}}
      first == CHOOSE i \in solid : \A j \in solid : i <= j
      last == CHOOSE i \in solid : \A j \in solid : j <= i
  IN  [k \in 1..(last - first + 1) |-> text[first + k - 1]]

Accepted == request.handler = "chat" /\ ~ IsBlank(request.input)

\* C7: after chat() accepted a message, the last element of the log is that
\* message's turn: its user text, the composer's text, confidence and source
\* for it, and the time read when it was handled.
C7_LastIsTheTurn ==
  Accepted =>
    /\ Log # <<>>
    /\ LET reply == process_user_message(Trimmed(request.input))
       IN  Log[Len(Log)] =
             [ user |-> Trimmed(request.input),
               bot |-> reply.response,
               score |-> reply.confidence,
               source |-> reply.source,
               timestamp |-> request.now ]
    /\ request.now \in {Clock[i] : i \in DOMAIN Clock}

\* a message accepted into a log that already held a different turn
C7_Witness ==
  /\ Accepted
  /\ Len(Log) = 2
  /\ Log[1] # Log[2]
  /\ request.input # Trimmed(request.input)

\* C8: after reset() the log reads empty, whatever the session held, and a
\* message handled right after a reset yields a log of exactly one turn.
C8_ResetClears ==
  [][ /\ request'.handler = "reset" =>
           get_conversation(session').conversation = <<>>
      /\ (request.handler = "reset" /\ request'.handler = "chat"
            /\ request'.composed) =>
           Len(get_conversation(session').conversation) = 1 ]_vars

\* a reset of a log that held turns
C8_Witness ==
  /\ request.handler = "reset"
  /\ request.before = "turns"
  /\ Log = <<>>

\* C9: a blank form input produces no turn: the composer is not called and
\* the session is left as it was.
C9_BlankIsIgnored ==
  [][ (request'.handler = "chat" /\ IsBlank(request'.input)) =>
        /\ ~ request'.composed
        /\ session' = session
        /\ <<user_input, result>>' = <<user_input, result>> ]_vars

\* a whitespace-only input handled while the log held turns
C9_Witness ==
  /\ request.handler = "chat"
  /\ request.input # <<>>
  /\ IsBlank(request.input)
  /\ ~ request.composed
  /\ Len(Log) > 0

\* the source tags the tiers of the composer return
FixedTags ==
  {"base de connaissances", "Système"}
    \cup {knowledge_base[c].source : c \in Categories}

\* C10: every turn of the log has a confidence in [0,1] and one source tag,
\* one of the fixed tags of the composer's tiers.
C10_TurnsWellFormed ==
  \A n \in DOMAIN Log :
    /\ Log[n].score \in 0..100
    /\ Log[n].source \in FixedTags

\* a log whose turns carry different tags
C10_Witness ==
  /\ Len(Log) = 2
  /\ Log[1].source # Log[2].source
  /\ Log[1].score # Log[2].score

\* C11: the log is append-only between resets: an accepted message makes it
\* exactly one turn longer with the earlier log as its unchanged prefix, also
\* when the same turn is already in it, and reading the log (index,
\* performance) or a blank message leaves it as it was.
C11_AppendOnly ==
  [][ /\ (request'.handler = "chat" /\ ~ IsBlank(request'.input)) =>
           /\ Len(Log') = Len(Log) + 1
           /\ SubSeq(Log', 1, Len(Log)) = Log
      /\ (request'.handler \in {"index", "performance"}
            \/ (request'.handler = "chat" /\ IsBlank(request'.input))) =>
           Log' = Log ]_vars

\* the same message handled twice in the same minute: two equal turns
C11_Witness ==
  /\ Accepted
  /\ Len(Log) = 2
  /\ Log[1] = Log[2]

\* the sum of the confidences of the turns whose indices are in S
RECURSIVE ScoreOver(_, _)
ScoreOver(S, log) ==
  IF S = {} THEN 0
  ELSE LET n == CHOOSE n \in S : TRUE
       IN  log[n].score + ScoreOver(S \ {n}, log)

\* C12: the average-confidence view is 0.0 for an empty log and otherwise
\* the sum of the confidences of all turns divided by their number, and
\* computing it leaves the log unchanged.
C12_AverageConfidence ==
  [][ request'.handler = "performance" =>
        LET avg == request'.response.stats.avg_confidence
        IN  /\ Log' = Log
            /\ avg.den > 0
            /\ Log = <<>> => avg.num = 0
            /\ Log # <<>> =>
                 avg.num * Len(Log) = ScoreOver(DOMAIN Log, Log) * avg.den ]_vars

\* the average of two different confidences
C12_Witness ==
  /\ request.handler = "performance"
  /\ Len(Log) = 2
  /\ Log[1].score # Log[2].score
  /\ request.response.stats.avg_confidence.num = Log[1].score + Log[2].score

\* C13: the source-statistics view maps each source tag of the log to the
\* number of turns that carry it: its keys are the tags occurring in the
\* log, the counts sum to the log length, and it is empty for an empty log.
C13_SourceStats ==
  request.handler = "performance" =>
    LET used == request.response.stats.sources_used
        tags == {Log[n].source : n \in DOMAIN Log}
    IN  /\ DOMAIN used = tags
        /\ \A t \in tags :
             used[t] = Cardinality({n \in DOMAIN Log : Log[n].source = t})
        /\ Log = <<>> => used = EmptyDict
        /\ request.response.stats.total_messages = Len(Log)

\* two turns with the same tag counted together
C13_Witness ==
  /\ request.handler = "performance"
  /\ Len(Log) = 2
  /\ Log[1].source = Log[2].source
  /\ Log[1].user # Log[2].user

-----------------------------------------------------------------------------
(* Claim about overlapping requests, under SpecConcurrent *)

\* the requests that carried a non-blank message
Messages == {r \in DOMAIN inflight : ~ IsBlank(inflight[r].input)}

AllDone == \A r \in DOMAIN inflight : inflight[r].pc = "done"

\* C14: when the messages of a session have all been handled, in whatever
\* order their steps were taken, the log holds one turn per non-blank
\* message.
C14_NoTurnLost ==
  AllDone => Len(Log) = Cardinality(Messages)

-----------------------------------------------------------------------------
(* Claims about the composer and the knowledge store, under SpecCompose *)

\* the planting and temporal words
PlantingKeywords ==
  { <<"q","u","a","n","d">>, <<"p","é","r","i","o","d","e">>,
    <<"p","l","a","n","t","e","r">>, <<"p","l","a","n","t","a","t","i","o","n">>,
    <<"s","e","m","e","r">>, <<"s","e","m","i","s">> }

HasPlantingKeyword(text) ==
  LET low == lower(text)
  IN  \E k \in PlantingKeywords : Contains(k, low)

\* the crops the store identifies in the text and has planting periods for
CropsWithPeriods(text) ==
  { nom \in find_culture_in_text(text) : get_planting_info(nom) # <<>> }

PlantingApplies(text) ==
  /\ ~ HasGreeting(text)
  /\ HasPlantingKeyword(text)
  /\ CropsWithPeriods(text) # {}

SoilApplies(text) ==
  /\ ~ HasGreeting(text)
  /\ ~ PlantingApplies(text)
  /\ get_soil_recommendations(text) # {}

\* C15: an input with a planting or temporal keyword and a crop of the store
\* that has planting periods is answered from those periods, with confidence
\* 0.96 and source "knowledge-store (crops)".
C15_PlantingTier ==
  (Returned /\ PlantingApplies(user_input)) =>
    /\ result.confidence = 96
    /\ result.source = "knowledge-store (crops)"

\* the advice the store holds for soil "sablonneux": its description and
\* exactly the crops Mil and Oignon
C16_StoredAdvice ==
  get_soil_recommendations(<<"s","o","l"," ","s","a","b","l","o","n","n","e","u","x">>) =
    { "{U+1F331} **Sol sablonneux**\n\n"
        \o sols[1].description \o "\n\n"
        \o "{U+2705} Cultures adaptées : Mil, Oignon." }

\* C16: an input that names a soil of the store is answered with the soil's
\* advice text (description and exactly the associated crops), confidence
\* 0.93 and source "knowledge-store (soils)".
C16_SoilTier ==
  /\ C16_StoredAdvice
  /\ (Returned /\ SoilApplies(user_input)) =>
       /\ result.response \in get_soil_recommendations(user_input)
       /\ result.confidence = 93
       /\ result.source = "knowledge-store (soils)"

\* C17: without a greeting keyword the planting lookup comes before the soil
\* lookup, which comes before the keyword scoring: the generic or the
\* fallback answer is given only when both lookups have no data for the
\* input.
C17_TierOrder ==
  (Returned /\ ~ HasGreeting(user_input) /\ (InGenericTier \/ InFallbackTier)) =>
    /\ ~ PlantingApplies(user_input)
    /\ get_soil_recommendations(user_input) = {}

\* the confidence of each category
FixedConfidence ==
  [ maladies |-> 92, plantation |-> 95, meteo |-> 88, parasites |-> 91,
    irrigation |-> 93, sol |-> 90, recolte |-> 89 ]

\* the category that answers: the first of those with the most hits
Winner(text) ==
  LET top == TopOf(Hits(text))
  IN  knowledge_base[CHOOSE c \in top : \A d \in top : c <= d].category

InGenericCase(text) == ~ HasGreeting(text) /\ MaxOf(Hits(text)) >= 1

\* C18 as stated: an answer of the generic tier carries the fixed confidence
\* of its category, and that confidence lies between 0.88 and 0.92, below
\* the greeting confidence 0.95 and above the fallback confidence 0.50.
C18_AsStated ==
  (Returned /\ InGenericCase(user_input)) =>
    /\ result.confidence = FixedConfidence[Winner(user_input)]
    /\ result.confidence \in 88..92
    /\ result.confidence < greeting_reply.confidence
    /\ result.confidence > 50

\* C18: an answer of the generic tier carries the fixed confidence of its
\* category, and that confidence lies between 0.88 and 0.95: never above the
\* greeting confidence 0.95 and above the fallback confidence 0.50.
C18_FixedConfidence ==
  (Returned /\ InGenericCase(user_input)) =>
    /\ result.confidence = FixedConfidence[Winner(user_input)]
    /\ result.confidence \in 88..95
    /\ result.confidence <= greeting_reply.confidence
    /\ result.confidence > 50

\* a generic answer whose confidence is above 0.92
C18_Witness ==
  /\ Returned
  /\ InGenericCase(user_input)
  /\ result.confidence > 92

-----------------------------------------------------------------------------
(* Claim about the composer among the requests, under SpecConcurrent *)

\* the requests whose message has been composed
Composed == {r \in DOMAIN inflight : inflight[r].reply # NoResult}

\* C19: two messages that differ only in letter case get the same text,
\* confidence and source whatever the log held when each was composed, and
\* the compose step of a request changes neither the session's log nor the
\* copy the request holds.
C19_PureCaseInsensitive ==
  /\ [](\A r1, r2 \in Composed :
          lower(inflight[r1].text) = lower(inflight[r2].text)
            => inflight[r1].reply = inflight[r2].reply)
  /\ [][\A r \in DOMAIN inflight :
          (inflight[r].pc = "compose" /\ inflight'[r].pc # "compose") =>
             /\ session' = session
             /\ inflight'[r].session = inflight[r].session
             /\ inflight'[r].conversation = inflight[r].conversation]_vars

\* two messages that differ in case only, answered over logs of different
\* lengths
C19_Witness ==
  \E r1, r2 \in Composed :
    /\ inflight[r1].text # inflight[r2].text
    /\ lower(inflight[r1].text) = lower(inflight[r2].text)
    /\ inflight[r1].pc = "done"
    /\ inflight[r2].pc = "done"
    /\ Len(inflight[r1].conversation) = 1
    /\ Len(inflight[r2].conversation) = 2

-----------------------------------------------------------------------------
(* Claim about the formatting, under SpecFormat *)

Newline(text, i) == text[i] = "\n"
Stars(text, i) == i + 1 <= Len(text) /\ text[i] = "*" /\ text[i + 1] = "*"

NoMarkers(text) == \A i \in DOMAIN text : ~ Newline(text, i) /\ ~ Stars(text, i)

HasPair(text) == \E i, j \in DOMAIN text : i + 2 <= j /\ Stars(text, i) /\ Stars(text, j)

\* C20: formatting what was formatted gives the same markup as formatting
\* once, and a text without a newline and without a double asterisk is left
\* as it is.
C20_FormatIdempotent ==
  /\ display.passes = 2 => display.html = display.once
  /\ (display.passes >= 1 /\ NoMarkers(display.text)) => display.once = display.text

\* a text with a newline and an asterisk pair, formatted twice
C20_Witness ==
  /\ display.passes = 2
  /\ HasPair(display.text)
  /\ \E i \in DOMAIN display.text : Newline(display.text, i)
  /\ display.once # display.text

-----------------------------------------------------------------------------
(* Claims about the knowledge store, under SpecStore *)

Lookups == {"find_culture_in_text", "get_planting_info", "get_soil_recommendations"}

\* C21: no exception leaves a lookup: when the store is unavailable or the
\* query fails, the lookup gives no data (None) and the caller goes on.
C21_LookupNeverRaises ==
  call.op \in Lookups =>
    /\ call.outcome.kind # "raised"
    /\ ~ store.tables => call.outcome.kind = "None"

\* no two rows of a table are the same, no two cultures and no two soils
\* have the same name
NoDuplicates(st) ==
  /\ \A i, j \in DOMAIN st.cultures : st.cultures[i].nom = st.cultures[j].nom => i = j
  /\ \A i, j \in DOMAIN st.sols : st.sols[i].nom = st.sols[j].nom => i = j
  /\ \A i, j \in DOMAIN st.periodes_plantation :
        st.periodes_plantation[i] = st.periodes_plantation[j] => i = j

Seeding == {"import", "seed_basic_data"}

\* C24: seed_basic_data changes nothing when the cultures table holds rows,
\* and a call that returns leaves rows in it: a second call leaves the store
\* as the first left it, and no row is ever duplicated.
C24_SeedIdempotent ==
  /\ [] NoDuplicates(store)
  /\ [][call'.op \in Seeding =>
          /\ Len(store.cultures) > 0 => store' = store
          /\ call'.outcome.kind # "raised" => Len(store'.cultures) > 0]_vars

\* seed_basic_data called on the seeded store
C24_Witness ==
  /\ call.op = "seed_basic_data"
  /\ call.outcome.kind = "None"
  /\ Len(store.cultures) = 8
  /\ Len(store.periodes_plantation) = 8
  /\ Len(store.sols) >= 3

\* the stored soils whose name occurs in the text, letter case apart
SoilsNamed(text) ==
  { i \in DOMAIN store.sols : Contains(lower(store.sols[i].nom), lower(text)) }

\* C27: get_soil_recommendations returns the advice of a stored soil whose
\* name occurs in the text whatever the letter case of the stored name and
\* of the text (the first such soil in the order the store gives them), and
\* None exactly when no stored soil name occurs in the text.
C27_SoilMatch ==
  (call.op = "get_soil_recommendations" /\ store.tables) =>
    /\ call.outcome.kind = "None" <=> SoilsNamed(call.arg) = {}
    /\ call.outcome.kind = "value" =>
          \E i \in SoilsNamed(call.arg) : call.outcome.value = soil_text(store.sols[i])

-----------------------------------------------------------------------------
(* Claims about the crop extraction, under SpecNlp *)

\* the crops of the table that have an alias in the lowercased text
CropsNamed(text) ==
  LET low == lower(text)
  IN  { c \in DOMAIN cultures_variantes :
          \E v \in DOMAIN cultures_variantes[c].variantes :
            Contains(cultures_variantes[c].variantes[v], low) }

\* the first of them in the order of the table, if any
FirstCrop(text) ==
  LET named == CropsNamed(text)
  IN  IF named = {} THEN [ kind |-> "None" ]
      ELSE [ kind |-> "value",
             value |-> cultures_variantes[CHOOSE c \in named :
                                            \A d \in named : c <= d].culture_std ]

\* C28: extraire_culture returns the first crop, in the order of the table,
\* that has an alias in the lowercased text, wherever the aliases stand in
\* the text, and None exactly when no crop has one.
C28_FirstCropWins ==
  call.op = "extraire_culture" =>
    /\ call.outcome = FirstCrop(call.arg)
    /\ call.outcome.kind = "None" <=> CropsNamed(call.arg) = {}

\* a text that names two crops, the later of the table first
C28_Witness ==
  /\ call.op = "extraire_culture"
  /\ call.arg = <<"r","i","z","m","i","l","l","e","t">>
  /\ call.outcome.kind = "value"
  /\ call.outcome.value = <<"m","i","l">>

\* C29: the crop of the message comes from the message alone, whatever the
\* history; the crop of the context before is there only with a history that
\* is not empty, and is then the crop of its last question.
C29_ContextExposed ==
  call.op = "analyser_contexte" =>
    LET contexte == call.outcome.value
        historique == call.arg.historique
    IN  /\ contexte.culture_mentionnee = FirstCrop(call.arg.texte)
        /\ "contexte_precedent" \in DOMAIN contexte =>
             /\ historique # <<>>
             /\ contexte.contexte_precedent = FirstCrop(historique[Len(historique)])

\* a message without a crop after a question about rice
C29_Witness ==
  /\ call.op = "analyser_contexte"
  /\ call.arg.historique # <<>>
  /\ CropsNamed(call.arg.texte) = {}
  /\ "contexte_precedent" \in DOMAIN call.outcome.value
  /\ call.outcome.value.contexte_precedent.kind = "value"
  /\ call.outcome.value.culture_mentionnee.kind = "None"

-----------------------------------------------------------------------------
(* Claim about the weather lookups, under SpecWeather *)

\* the request did not succeed: no response, a status other than 200, or a
\* body that is not the JSON object of the service
LookupFailed(response) ==
  \/ response.kind = "exception"
  \/ response.status_code # 200
  \/ response.body = NotJson
  \/ ~ ({"main", "list"} \cap DOMAIN response.body # {})

\* C23: no exception leaves obtenir_meteo_actuelle or obtenir_previsions;
\* when the request fails the first returns None, the second the empty list,
\* and verifier_alertes then returns no alert.
C23_WeatherFallible ==
  /\ call.op = "obtenir_meteo_actuelle" =>
       /\ call.outcome.kind \in {"None", "value"}
       /\ LookupFailed(call.arg) => call.outcome.kind = "None"
  /\ call.op = "obtenir_previsions" =>
       /\ call.outcome.kind = "value"
       /\ LookupFailed(call.arg) => call.outcome.value = <<>>
  /\ (call.op = "verifier_alertes" /\ LookupFailed(call.arg)) =>
       /\ call.outcome.kind = "value"
       /\ call.outcome.value = <<>>

\* alerts asked for while the service answers 404 with a body that would
\* give alerts
C23_Witness ==
  /\ call.op = "verifier_alertes"
  /\ call.arg.kind = "response"
  /\ call.arg.status_code = 404
  /\ "main" \in DOMAIN call.arg.body
  /\ call.arg.body.main.humidity = JNum(29)
  /\ call.outcome.value = <<>>

-----------------------------------------------------------------------------
(* Claims about the DatabaseManager, under SpecBase *)

\* the rows of a table whose name is the given one, letter case ignored
RowsNamed(table, nom) ==
  { i \in DOMAIN table : lower(table[i].nom) = lower(nom) }

\* C25: no two cultures have names equal ignoring case; ajouter_culture with
\* the name of a stored culture returns the id of that culture and leaves the
\* number of cultures as it was, and with a new name it returns an id and
\* adds exactly one row.
C25_AddsOrUpdates ==
  /\ \A i, j \in DOMAIN base.cultures :
       lower(base.cultures[i].nom) = lower(base.cultures[j].nom) => i = j
  /\ call.op = "ajouter_culture" =>
       /\ call.outcome.kind = "value"
       /\ IF RowsNamed(call.before.cultures, call.arg.nom) # {}
            THEN /\ \E i \in RowsNamed(call.before.cultures, call.arg.nom) :
                      call.before.cultures[i].id = call.outcome.value
                 /\ Len(base.cultures) = Len(call.before.cultures)
            ELSE Len(base.cultures) = Len(call.before.cultures) + 1

\* the months of a period, one that wraps over the year end included
MonthsOf(mois_debut, mois_fin) ==
  IF mois_debut <= mois_fin THEN mois_debut..mois_fin
  ELSE (mois_debut..12) \cup (1..mois_fin)

\* the rows that hold the period itself
SamePeriod(table, periode_data) ==
  { i \in DOMAIN table :
      /\ table[i].culture_id = periode_data.culture_id
      /\ table[i].saison = periode_data.saison
      /\ table[i].mois_debut = periode_data.mois_debut
      /\ table[i].mois_fin = periode_data.mois_fin }

\* the rows of the same culture and season that share a month with the period
Overlapping(table, periode_data) ==
  { i \in DOMAIN table :
      /\ table[i].culture_id = periode_data.culture_id
      /\ table[i].saison = periode_data.saison
      /\ MonthsOf(table[i].mois_debut, table[i].mois_fin)
           \cap MonthsOf(periode_data.mois_debut, periode_data.mois_fin) # {} }

\* C26: after ajouter_periode_plantation exactly one row holds the period and
\* its id is the one returned; when a period of the same culture and season
\* overlapped it before the call, one of those rows was updated and none was
\* added.
C26_PeriodAddsOrUpdates ==
  call.op = "ajouter_periode_plantation" =>
    /\ call.outcome.kind = "value"
    /\ Cardinality(SamePeriod(base.periodes_plantation, call.arg)) = 1
    /\ \A i \in SamePeriod(base.periodes_plantation, call.arg) :
         base.periodes_plantation[i].id = call.outcome.value
    /\ Overlapping(call.before.periodes_plantation, call.arg) # {} =>
         /\ Len(base.periodes_plantation) = Len(call.before.periodes_plantation)
         /\ \E i \in Overlapping(call.before.periodes_plantation, call.arg) :
              call.before.periodes_plantation[i].id = call.outcome.value

\* the list fields of a culture
ListFields == {"type_sol", "conditions_climatiques", "conseils_generaux"}

\* stored values that are empty or no JSON
Unreadable ==
  { [ py |-> "None" ],
    [ py |-> "str", chars |-> <<>> ],
    [ py |-> "str", chars |-> <<"[","\"","a","r","g","i","l","e","u","x">> ],
    [ py |-> "str", chars |-> <<"a","r","g","i","l","e","u","x">> ] }

\* C22: the lookup of a stored culture returns its record, and each list
\* field stored empty or as no JSON is the empty list in it.
C22_MalformedFieldRead ==
  \A i \in DOMAIN base.cultures :
    (call.op = "rechercher_culture_par_nom" /\ base.cultures[i].nom = call.arg) =>
      /\ call.outcome.kind = "value"
      /\ call.outcome.value.id = base.cultures[i].id
      /\ \A field \in ListFields :
           base.cultures[i][field] \in Unreadable =>
             call.outcome.value[field] = [ py |-> "list", items |-> <<>> ]

\* C30: importer_depuis_json never raises, and on a well-formed file with at
\* least one culture it returns True and the store then holds exactly the
\* cultures of the file.
C30_ImportCompletes ==
  call.op = "importer_depuis_json" =>
    /\ call.outcome.kind = "value"
    /\ (call.arg.kind = "json" /\ call.arg.cultures # <<>>) =>
         /\ call.outcome.value = TRUE
         /\ { lower(base.cultures[i].nom) : i \in DOMAIN base.cultures }
              = { lower(call.arg.cultures[i].culture.nom) :
                    i \in DOMAIN call.arg.cultures }

====
